---- MODULE Spec2Model ----
(***************************************************************************)
(* A model of the KQL filter pipeline of go-ecslog (package kqlog): the    *)
(* lexer goroutine (lex.go), the shunting-yard parser (parse.go), the term *)
(* model (term.go), the RPN steps (rpn.go), the evaluator (kqlog.go) and   *)
(* the dotted-path resolver (jsonutils/lookup.go).                         *)
(*                                                                         *)
(* Strings are sequences of one-character strings, so that byte offsets,   *)
(* slicing and escapes are modelled as the code computes them.  Every      *)
(* character of the model alphabet is one byte wide.                       *)
(***************************************************************************)
EXTENDS Integers, Sequences, FiniteSets, TLC

VARIABLES
    l,          \* the lexer under test of collectTokens (lex_test.go)
    collected,  \* the tokens gathered by collectTokens
    p,          \* the parser of one NewFilter call (owns its lexer, p.lex)
    ret,        \* what NewFilter returned: [f, err], or NotReturned
    filter,     \* the Filter under Match: its steps, with their terms
    m,          \* the state of Match calls on `filter`
    jsonCall,   \* one call of a jsonutils function: its arguments and result
    renderer,   \* the Renderer and its RenderFile run
    fnCall      \* one call of a pure function: its arguments and result

vars == <<l, collected, p, ret, filter, m, jsonCall, renderer, fnCall>>

\* ------------------------------------------------------------------------
\* Bounds of the model.
\* ------------------------------------------------------------------------
MaxLexLen == 4

\* ------------------------------------------------------------------------
\* Generic helpers.
\* ------------------------------------------------------------------------
Last(s) == s[Len(s)]

Front(s) == SubSeq(s, 1, Len(s) - 1)

SeqsUpTo(S, n) == UNION {[1..k -> S] : k \in 0..n}

\* ------------------------------------------------------------------------
\* Tokens (lex.go).
\* ------------------------------------------------------------------------
Eof == "EOF"    \* const eof = -1: the rune next() returns at end of input
Nul == "NUL"    \* the rune U+0000

NoTok == [typ |-> "none", pos |-> 0, val |-> <<>>]

\* The zero value of `token`, which a receive from the closed channel yields.
ZeroTok == [typ |-> "tokTypeError", pos |-> 0, val |-> <<>>]

Token(typ, pos, val) == [typ |-> typ, pos |-> pos, val |-> val]

TerminalTypes == {"tokTypeEOF", "tokTypeError"}

isSpace(r) == r \in {" ", "\t", "\r", "\n"}

isDelimitingSpecialChar(r) == r \in {"(", ")", ":", "<", ">", "\"", "{", "}"}

ToLowerCh(c) ==
    CASE c = "A" -> "a" [] c = "B" -> "b" [] c = "C" -> "c" [] c = "D" -> "d"
      [] c = "E" -> "e" [] c = "F" -> "f" [] c = "G" -> "g" [] c = "H" -> "h"
      [] c = "I" -> "i" [] c = "J" -> "j" [] c = "K" -> "k" [] c = "L" -> "l"
      [] c = "M" -> "m" [] c = "N" -> "n" [] c = "O" -> "o" [] c = "P" -> "p"
      [] c = "Q" -> "q" [] c = "R" -> "r" [] c = "S" -> "s" [] c = "T" -> "t"
      [] c = "U" -> "u" [] c = "V" -> "v" [] c = "W" -> "w" [] c = "X" -> "x"
      [] c = "Y" -> "y" [] c = "Z" -> "z"
      [] OTHER -> c

ToLower(s) == [i \in 1..Len(s) |-> ToLowerCh(s[i])]

ToUpperCh(c) ==
    CASE c = "a" -> "A" [] c = "b" -> "B" [] c = "c" -> "C" [] c = "d" -> "D"
      [] c = "e" -> "E" [] c = "f" -> "F" [] c = "g" -> "G" [] c = "h" -> "H"
      [] c = "i" -> "I" [] c = "j" -> "J" [] c = "k" -> "K" [] c = "l" -> "L"
      [] c = "m" -> "M" [] c = "n" -> "N" [] c = "o" -> "O" [] c = "p" -> "P"
      [] c = "q" -> "Q" [] c = "r" -> "R" [] c = "s" -> "S" [] c = "t" -> "T"
      [] c = "u" -> "U" [] c = "v" -> "V" [] c = "w" -> "W" [] c = "x" -> "X"
      [] c = "y" -> "Y" [] c = "z" -> "Z"
      [] OTHER -> c

ToUpper(s) == [i \in 1..Len(s) |-> ToUpperCh(s[i])]

\* ------------------------------------------------------------------------
\* The lexer (lex.go).  l.pc is the state function to run next, or the
\* point inside a state function at which the goroutine resumes once its
\* pending send on the unbuffered channel l.tokens has been received.
\* ------------------------------------------------------------------------
lex(input) ==
    [input |-> input, start |-> 0, pos |-> 0, width |-> 0, parenDepth |-> 0,
     pc |-> "lexInsideKQL", pending |-> NoTok, closed |-> FALSE]

LexNext(lx) ==
    IF lx.pos >= Len(lx.input)
    THEN [r |-> Eof, l |-> [lx EXCEPT !.width = 0]]
    ELSE [r |-> lx.input[lx.pos + 1],
          l |-> [lx EXCEPT !.width = 1, !.pos = @ + 1]]

LexBackup(lx) == [lx EXCEPT !.pos = @ - lx.width]

\* emit: the send blocks; `l.start = l.pos` runs when the send completes,
\* and the goroutine then continues at `cont`.
LexEmit(lx, typ, cont) ==
    [lx EXCEPT !.pending = Token(typ, lx.start,
                                 SubSeq(lx.input, lx.start + 1, lx.pos)),
               !.start = lx.pos,
               !.pc = cont]

\* errorf that does not end the state machine: lexing goes on after the
\* error token.
LexErrorfGoesOn(lx, msg) ==
    [lx EXCEPT !.pending = Token("tokTypeError", lx.start, <<msg>>),
               !.start = lx.pos,
               !.pc = "lexInsideKQL"]

LexErrorf(lx, msg) ==
    [lx EXCEPT !.pending = Token("tokTypeError", lx.start, <<msg>>),
               !.pc = "returnNil"]

\* The comparison operators: `<` or `>` has been read, n is the read of the
\* rune after it.
LexRangeOp(n, typEq, typ) ==
    IF n.r = "="
    THEN LexEmit(n.l, typEq, "lexInsideKQL")
    ELSE LexEmit(LexBackup(n.l), typ, "lexInsideKQL")

\* fmt's %d of a natural number: its decimal digits.
DecimalDigits == <<"0", "1", "2", "3", "4", "5", "6", "7", "8", "9">>

RECURSIVE FormatInt(_)
FormatInt(n) ==
    IF n < 10 THEN <<DecimalDigits[n + 1]>>
    ELSE Append(FormatInt(n \div 10), DecimalDigits[(n % 10) + 1])

\* errorf with one %d operand: the token holds the format and the digits
\* put in the place of the verb.
LexErrorfInt(lx, msg, n) ==
    [LexErrorf(lx, msg) EXCEPT !.pending.val = <<msg>> \o FormatInt(n)]

\* The end of input that takes every depth for zero.
LexAtEofAnyDepth(lx) == LexEmit(lx, "tokTypeEOF", "returnNil")

\* lexInsideKQL at the end of the input: the switch on l.parenDepth.
LexAtEof(lx) ==
    CASE lx.parenDepth = 0 -> LexEmit(lx, "tokTypeEOF", "returnNil")
      [] lx.parenDepth = 1 -> LexErrorf(lx, "unclosed open parenthesis")
      [] OTHER -> LexErrorfInt(lx, "unclosed open parentheses (%d)",
                               lx.parenDepth)

\* lexInsideKQL after its `l.next()`, n.
LexInsideKQLOn(n) ==
    CASE n.r = Eof -> LexAtEof(n.l)
      [] isSpace(n.r) -> [n.l EXCEPT !.start = n.l.pos]
      [] n.r = "(" -> LexEmit(n.l, "tokTypeOpenParen", "afterOpenParen")
      [] n.r = ")" -> LexEmit(n.l, "tokTypeCloseParen", "afterCloseParen")
      [] n.r = ":" -> LexEmit(n.l, "tokTypeColon", "lexInsideKQL")
      [] n.r = "\"" -> LexErrorf(n.l, "do not yet support quoted literals")
      [] n.r = "<" -> LexRangeOp(LexNext(n.l), "tokTypeLte", "tokTypeLt")
      [] n.r = ">" -> LexRangeOp(LexNext(n.l), "tokTypeGte", "tokTypeGt")
      [] n.r \in {"{", "}"} ->
           LexErrorf(n.l, "do not support KQL nest field queries: %q")
      [] n.r = Nul -> LexErrorf(n.l, "unrecognized character: %#U")
      [] OTHER -> [LexBackup(n.l) EXCEPT !.pc = "lexUnquotedLiteralOrBoolOp"]

LexInsideKQL(lx) == LexInsideKQLOn(LexNext(lx))

\* The scanning loop of lexUnquotedLiteralOrBoolOp: the lexer at the end of
\* the literal, or with a pending error for a backslash at end of input.
\* LexLiteralLoopOn is an iteration after its `l.next()`, n; LexEscape is
\* the case of a backslash, n being the read of the rune after it.
RECURSIVE LexLiteralLoop(_)
RECURSIVE LexLiteralLoopOn(_)
RECURSIVE LexEscape(_)
LexLiteralLoop(lx) == LexLiteralLoopOn(LexNext(lx))

LexLiteralLoopOn(n) ==
    CASE n.r = Eof -> n.l
      [] isSpace(n.r) -> LexBackup(n.l)
      [] n.r = "\\" -> LexEscape(LexNext(n.l))
      [] isDelimitingSpecialChar(n.r) -> LexBackup(n.l)
      [] OTHER -> LexLiteralLoop(n.l)

\* The backslash case that ends the literal at the end of the input
\* instead of reporting the escape.
LexEscapeEndsLiteral(n) ==
    IF n.r = Eof THEN n.l ELSE LexLiteralLoop(n.l)

LexEscape(n) ==
    IF n.r = Eof
    THEN LexErrorf(n.l, "unterminated character escape")
    ELSE LexLiteralLoop(n.l)

\* The switch that compares the bytes as they are, without lowercasing.
LexWordTypeAsWritten(val) ==
    CASE val = <<"o", "r">> -> "tokTypeOr"
      [] val = <<"a", "n", "d">> -> "tokTypeAnd"
      [] val = <<"n", "o", "t">> -> "tokTypeNot"
      [] OTHER -> "tokTypeUnquotedLiteral"

LexWordType(val) ==
    IF Len(val) > 3 THEN "tokTypeUnquotedLiteral"
    ELSE CASE ToLower(val) = <<"o", "r">> -> "tokTypeOr"
           [] ToLower(val) = <<"a", "n", "d">> -> "tokTypeAnd"
           [] ToLower(val) = <<"n", "o", "t">> -> "tokTypeNot"
           [] OTHER -> "tokTypeUnquotedLiteral"

\* lexUnquotedLiteralOrBoolOp after its loop, which left the lexer as l1.
LexEmitWord(l1) ==
    IF l1.pending # NoTok THEN l1
    ELSE LexEmit(l1, LexWordType(SubSeq(l1.input, l1.start + 1, l1.pos)),
                 "lexInsideKQL")

LexUnquotedLiteralOrBoolOp(lx) == LexEmitWord(LexLiteralLoop(lx))

\* The rest of a state function after its send has completed, and the end
\* of run(): a nil state leaves the loop and closes the channel.
LexResume(lx) ==
    CASE lx.pc = "afterOpenParen" ->
           [lx EXCEPT !.parenDepth = @ + 1, !.pc = "lexInsideKQL"]
      [] lx.pc = "afterCloseParen" ->
           IF lx.parenDepth - 1 < 0
           THEN LexErrorf([lx EXCEPT !.parenDepth = @ - 1],
                          "unmatched close parenthesis")
           ELSE [lx EXCEPT !.parenDepth = @ - 1, !.pc = "lexInsideKQL"]
      [] lx.pc = "returnNil" -> [lx EXCEPT !.closed = TRUE, !.pc = "closed"]
      [] OTHER -> lx

LexCanRun(lx) == lx.pending = NoTok /\ ~lx.closed

\* One step of the loop of run().
LexRunStep(lx) ==
    CASE lx.pc = "lexInsideKQL" -> LexInsideKQL(lx)
      [] lx.pc = "lexUnquotedLiteralOrBoolOp" -> LexUnquotedLiteralOrBoolOp(lx)
      [] OTHER -> LexResume(lx)

\* The goroutine runs until it blocks in a send or has closed the channel.
RECURSIVE LexRun(_)
LexRun(lx) == IF LexCanRun(lx) THEN LexRun(LexRunStep(lx)) ELSE lx

\* The receive `<-l.tokens` from a goroutine l1 that is blocked in a send
\* or has closed the channel (which yields the zero token).
Receive(l1) ==
    IF l1.closed
    THEN [tok |-> ZeroTok, l |-> l1]
    ELSE [tok |-> l1.pending, l |-> [l1 EXCEPT !.pending = NoTok]]

\* nextToken: the receiver waits for the goroutine to reach its next send
\* or the close.
nextToken(lx) == Receive(LexRun(lx))

\* ------------------------------------------------------------------------
\* Numbers.  A float64 is modelled by the decimal it denotes: mantissa m
\* over 10^e, normalised so that equal numbers are equal records.  The
\* model covers the decimal syntax [+-]digits[.digits] of ParseFloat and of
\* JSON numbers; other spellings do not occur in the model's inputs.
\* ------------------------------------------------------------------------
Digits == {"0", "1", "2", "3", "4", "5", "6", "7", "8", "9"}

DigitVal(c) ==
    CASE c = "0" -> 0 [] c = "1" -> 1 [] c = "2" -> 2 [] c = "3" -> 3
      [] c = "4" -> 4 [] c = "5" -> 5 [] c = "6" -> 6 [] c = "7" -> 7
      [] c = "8" -> 8 [] c = "9" -> 9

RECURSIVE Pow10(_)
Pow10(n) == IF n = 0 THEN 1 ELSE 10 * Pow10(n - 1)

RECURSIVE NormNum(_, _)
NormNum(mant, e) ==
    IF e > 0 /\ mant % 10 = 0 THEN NormNum(mant \div 10, e - 1)
    ELSE [m |-> mant, e |-> e]

RECURSIVE DigitsVal(_)
DigitsVal(s) == IF s = <<>> THEN 0 ELSE 10 * DigitsVal(Front(s)) + DigitVal(Last(s))

AllDigits(s) == \A i \in 1..Len(s) : s[i] \in Digits

NumLess(x, y) == x.m * Pow10(y.e) < y.m * Pow10(x.e)

\* strconv.ParseFloat(s, 64): [ok, v].
ParseFloat(s) ==
    LET signed == s # <<>> /\ s[1] \in {"-", "+"}
        body == IF signed THEN Tail(s) ELSE s
        dots == {i \in 1..Len(body) : body[i] = "."}
        dot == IF dots = {} THEN Len(body) + 1 ELSE CHOOSE i \in dots : \A j \in dots : i <= j
        ip == SubSeq(body, 1, dot - 1)
        fp == SubSeq(body, dot + 1, Len(body))
        ok == /\ AllDigits(ip) /\ AllDigits(fp)
              /\ Len(ip) + Len(fp) > 0
        mag == DigitsVal(ip \o fp)
    IN  IF ok
        THEN [ok |-> TRUE,
              v |-> NormNum(IF signed /\ s[1] = "-" THEN 0 - mag ELSE mag, Len(fp))]
        ELSE [ok |-> FALSE, v |-> [m |-> 0, e |-> 0]]

\* ------------------------------------------------------------------------
\* Byte order of strings (Go's <, > on strings).
\* ------------------------------------------------------------------------
Ord(c) ==
    CASE c = "\t" -> 9 [] c = "\n" -> 10 [] c = "\r" -> 13 [] c = " " -> 32
      [] c = "\"" -> 34 [] c = "(" -> 40 [] c = ")" -> 41 [] c = "*" -> 42
      [] c = "+" -> 43 [] c = "-" -> 45 [] c = "." -> 46
      [] c \in Digits -> 48 + DigitVal(c)
      [] c = ":" -> 58 [] c = "<" -> 60 [] c = "=" -> 61 [] c = ">" -> 62
      [] c = "A" -> 65 [] c = "D" -> 68 [] c = "N" -> 78 [] c = "O" -> 79
      [] c = "R" -> 82 [] c = "T" -> 84
      [] c = "\\" -> 92 [] c = "^" -> 94
      [] c = "a" -> 97 [] c = "b" -> 98 [] c = "c" -> 99 [] c = "d" -> 100
      [] c = "e" -> 101 [] c = "f" -> 102 [] c = "g" -> 103 [] c = "i" -> 105
      [] c = "l" -> 108 [] c = "n" -> 110 [] c = "o" -> 111 [] c = "r" -> 114
      [] c = "s" -> 115 [] c = "t" -> 116 [] c = "u" -> 117 [] c = "v" -> 118
      [] c = "w" -> 119 [] c = "x" -> 120 [] c = "y" -> 121 [] c = "z" -> 122
      [] c = "{" -> 123 [] c = "}" -> 125
      [] OTHER -> 0

RECURSIVE StrLess(_, _)
StrLess(s, t) ==
    IF t = <<>> THEN FALSE
    ELSE IF s = <<>> THEN TRUE
    ELSE IF Ord(s[1]) # Ord(t[1]) THEN Ord(s[1]) < Ord(t[1])
    ELSE StrLess(Tail(s), Tail(t))

\* ------------------------------------------------------------------------
\* Terms (term.go).
\* ------------------------------------------------------------------------
NoNum == [m |-> 0, e |-> 0]

term(val, wildcard, regexpVal) ==
    [Val |-> val, Wildcard |-> wildcard, regexpVal |-> regexpVal,
     numParsed |-> FALSE, numOk |-> FALSE, numVal |-> NoNum,
     boolParsed |-> FALSE, boolOk |-> FALSE, boolVal |-> FALSE]

whitespaceFromEscapeChar(c) ==
    CASE c = "n" -> "\n" [] c = "t" -> "\t" [] c = "r" -> "\r" [] OTHER -> "none"

unquotedSpecialChars == {"\\", "(", ")", ":", "<", ">", "\"", "*", "{", "}"}

\* regexp.QuoteMeta
RegexpMeta == {"\\", ".", "+", "*", "?", "(", ")", "|", "[", "]", "{", "}", "^", "$"}

RECURSIVE QuoteMeta(_)
QuoteMeta(s) ==
    IF s = <<>> THEN <<>>
    ELSE (IF s[1] \in RegexpMeta THEN <<"\\", s[1]>> ELSE <<s[1]>>) \o QuoteMeta(Tail(s))

\* The byte loop of newTerm at index i (0-based).  b is the string built so
\* far, chunk the literal text since the last wildcard, chunks the literal
\* texts between the wildcards seen so far: the pattern `regexp.MustCompile`
\* compiles is those texts, each matched literally, joined by `.*`.
RECURSIVE newTermLoop(_, _, _, _, _, _)
newTermLoop(val, i, b, chunk, chunks, isWildcard) ==
    IF i >= Len(val)
    THEN [b |-> b, chunk |-> chunk, chunks |-> chunks, isWildcard |-> isWildcard,
          fatal |-> FALSE]
    ELSE LET ch == val[i + 1]
         IN  IF ch = "\\"
             THEN IF i + 1 >= Len(val)
                  THEN [b |-> b, chunk |-> chunk, chunks |-> chunks,
                        isWildcard |-> isWildcard, fatal |-> TRUE]
                  ELSE LET nextCh == val[i + 2]
                           rest == SubSeq(val, i + 2, Len(val))
                           ws == whitespaceFromEscapeChar(nextCh)
                       IN  IF i + 2 = Len(val) - 1 /\ rest = <<"o", "r">>
                           THEN newTermLoop(val, i + 3, b, chunk \o <<"o", "r">>, chunks, isWildcard)
                           ELSE IF i + 3 = Len(val) - 1 /\ rest = <<"a", "n", "d">>
                           THEN newTermLoop(val, i + 4, b, chunk \o <<"a", "n", "d">>, chunks, isWildcard)
                           ELSE IF i + 3 = Len(val) - 1 /\ rest = <<"n", "o", "t">>
                           THEN newTermLoop(val, i + 4, b, chunk \o <<"n", "o", "t">>, chunks, isWildcard)
                           ELSE IF ws # "none"
                           THEN newTermLoop(val, i + 2, b, Append(chunk, ws), chunks, isWildcard)
                           ELSE IF nextCh \in unquotedSpecialChars
                           THEN newTermLoop(val, i + 2, b, Append(chunk, nextCh), chunks, isWildcard)
                           ELSE newTermLoop(val, i + 1, b, Append(chunk, ch), chunks, isWildcard)
             ELSE IF ch = "*"
             THEN newTermLoop(val, i + 1, b \o QuoteMeta(chunk) \o <<".", "*">>, <<>>,
                              Append(chunks, chunk), TRUE)
             ELSE newTermLoop(val, i + 1, b, Append(chunk, ch), chunks, isWildcard)

\* newTerm after its loop, with result r.
termFromLoop(r) ==
    IF r.isWildcard
    THEN term(<<"^">> \o r.b \o QuoteMeta(r.chunk) \o <<"$">>, TRUE,
              Append(r.chunks, r.chunk))
    ELSE term(r.b \o r.chunk, FALSE, <<>>)

newTerm(val) == termFromLoop(newTermLoop(val, 0, <<>>, <<>>, <<>>, FALSE))

\* newTerm would exit through lg.Fatalf on this value.
newTermFatal(val) == newTermLoop(val, 0, <<>>, <<>>, <<>>, FALSE).fatal

IsPrefix(pre, s) == Len(pre) <= Len(s) /\ SubSeq(s, 1, Len(pre)) = pre

\* regexpVal.Match(b) for the anchored pattern chunk1 .* chunk2 .* ... chunkN:
\* `.` matches any character but a newline.
RECURSIVE RegexpMatch(_, _)
RegexpMatch(chunks, b) ==
    IF Len(chunks) = 1 THEN b = chunks[1]
    ELSE /\ IsPrefix(chunks[1], b)
         /\ \E k \in Len(chunks[1])..Len(b) :
              /\ \A j \in (Len(chunks[1]) + 1)..k : b[j] # "\n"
              /\ RegexpMatch(Tail(chunks), SubSeq(b, k + 1, Len(b)))

MatchStringBytes(t, b) ==
    IF t.Wildcard THEN RegexpMatch(t.regexpVal, b) ELSE t.Val = b

\* GetBoolVal and GetNumVal: the term after the call (its cache filled on
\* the first call) and the values returned.
GetBoolVal(t) ==
    LET t1 == IF t.boolParsed THEN t
              ELSE CASE t.Val = <<"t", "r", "u", "e">> ->
                          [t EXCEPT !.boolVal = TRUE, !.boolOk = TRUE, !.boolParsed = TRUE]
                     [] t.Val = <<"f", "a", "l", "s", "e">> ->
                          [t EXCEPT !.boolVal = FALSE, !.boolOk = TRUE, !.boolParsed = TRUE]
                     [] OTHER -> [t EXCEPT !.boolOk = FALSE, !.boolParsed = TRUE]
    IN  [t |-> t1, boolVal |-> t1.boolVal, ok |-> t1.boolOk]

GetNumVal(t) ==
    LET f == ParseFloat(t.Val)
        t1 == IF t.numParsed THEN t
              ELSE IF ~f.ok THEN [t EXCEPT !.numOk = FALSE, !.numParsed = TRUE]
              ELSE [t EXCEPT !.numOk = TRUE, !.numVal = f.v, !.numParsed = TRUE]
    IN  [t |-> t1, numVal |-> t1.numVal, ok |-> t1.numOk]

\* ------------------------------------------------------------------------
\* JSON values (fastjson.Value).  Nil is the nil pointer (an absent value).
\* An object is the ordered sequence of its [k, v] members.
\* ------------------------------------------------------------------------
JV(typ, s, n, a, o) == [typ |-> typ, s |-> s, n |-> n, a |-> a, o |-> o]

Nil == JV("nil", <<>>, NoNum, <<>>, <<>>)
JNull == JV("TypeNull", <<>>, NoNum, <<>>, <<>>)
JTrue == JV("TypeTrue", <<>>, NoNum, <<>>, <<>>)
JFalse == JV("TypeFalse", <<>>, NoNum, <<>>, <<>>)
JStr(s) == JV("TypeString", s, NoNum, <<>>, <<>>)
JNum(mant, e) == JV("TypeNumber", <<>>, NormNum(mant, e), <<>>, <<>>)
JArr(a) == JV("TypeArray", <<>>, NoNum, a, <<>>)
JObj(o) == JV("TypeObject", <<>>, NoNum, <<>>, o)

KV(k, v) == [k |-> k, v |-> v]

\* Object.Get: the value of the first member with the key, or nil.
ObjGet(obj, key) ==
    LET hits == {i \in 1..Len(obj.o) : obj.o[i].k = key}
    IN  IF hits = {} THEN Nil
        ELSE obj.o[CHOOSE i \in hits : \A j \in hits : i <= j].v

\* strings.Split(s, ".")
RECURSIVE SplitDots(_, _)
SplitDots(s, cur) ==
    IF s = <<>> THEN <<cur>>
    ELSE IF s[1] = "." THEN <<cur>> \o SplitDots(Tail(s), <<>>)
    ELSE SplitDots(Tail(s), Append(cur, s[1]))

Split(s) == SplitDots(s, <<>>)

\* strings.Join(names, ".")
RECURSIVE Join(_)
Join(names) ==
    IF names = <<>> THEN <<>>
    ELSE IF Len(names) = 1 THEN names[1]
    ELSE names[1] \o <<".">> \o Join(Tail(names))

\* jsonutils.LookupValue; LookupValueFrom is its loop from index i on.
RECURSIVE LookupValue(_, _)
RECURSIVE LookupValueFrom(_, _, _)
LookupValue(obj, lookup) ==
    IF obj = Nil THEN Nil
    ELSE IF Len(lookup) = 0 THEN obj
    ELSE IF obj.typ # "TypeObject" THEN Nil
    ELSE IF Len(lookup) = 1 THEN ObjGet(obj, lookup[1])
    ELSE LookupValueFrom(obj, lookup, 1)

\* The loop that tries the first name alone as a key and never a dotted
\* key.
LookupValueFromNestedOnly(obj, lookup, i) ==
    LookupValue(ObjGet(obj, lookup[1]), Tail(lookup))

LookupValueFrom(obj, lookup, i) ==
    IF i > Len(lookup) THEN Nil
    ELSE LET key == Join(SubSeq(lookup, 1, i))
             val == LookupValue(ObjGet(obj, key), SubSeq(lookup, i + 1, Len(lookup)))
         IN  IF val # Nil THEN val ELSE LookupValueFrom(obj, lookup, i + 1)

\* Object.Del: the first member with the key is removed.
ObjDel(obj, key) ==
    LET hits == {i \in 1..Len(obj.o) : obj.o[i].k = key}
    IN  IF hits = {} THEN obj
        ELSE LET h == CHOOSE i \in hits : \A k \in hits : i <= k
             IN  [obj EXCEPT !.o = SubSeq(@, 1, h - 1) \o SubSeq(@, h + 1, Len(@))]

\* The value Object.Get returned for the key, changed in place to v.
ObjSet(obj, key, v) ==
    LET hits == {i \in 1..Len(obj.o) : obj.o[i].k = key}
    IN  IF hits = {} THEN obj
        ELSE [obj EXCEPT !.o[CHOOSE i \in hits : \A k \in hits : i <= k].v = v]

\* What an extract call gives: the value returned and the object after it.
Extracted(val, obj) == [val |-> val, obj |-> obj]

\* The end of a round that leaves an emptied object in its parent.
ExtractFoundKeepsEmpty(obj, key, e, last) ==
    IF last THEN Extracted(e.val, ObjDel(obj, key))
    ELSE Extracted(e.val, ObjSet(obj, key, e.obj))

\* The end of one round of the loop of ExtractValue and of
\* ExtractValueOfType, when its inner call e found a value under key.
ExtractFound(obj, key, e, last) ==
    IF last THEN Extracted(e.val, ObjDel(obj, key))
    ELSE IF Len(e.obj.o) = 0 THEN Extracted(e.val, ObjDel(obj, key))
    ELSE Extracted(e.val, ObjSet(obj, key, e.obj))

\* jsonutils.ExtractValue; ExtractValueFrom is its loop from index i on.
RECURSIVE ExtractValue(_, _)
RECURSIVE ExtractValueFrom(_, _, _)
RECURSIVE ExtractValueRound(_, _, _, _)
ExtractValue(obj, lookup) ==
    IF obj = Nil THEN Extracted(Nil, obj)
    ELSE IF Len(lookup) = 0 THEN Extracted(obj, obj)
    ELSE IF obj.typ # "TypeObject" THEN Extracted(Nil, obj)
    ELSE IF Len(lookup) = 1
    THEN IF ObjGet(obj, lookup[1]) # Nil
         THEN Extracted(ObjGet(obj, lookup[1]), ObjDel(obj, lookup[1]))
         ELSE Extracted(Nil, obj)
    ELSE ExtractValueFrom(obj, lookup, 1)

ExtractValueFrom(obj, lookup, i) ==
    IF i > Len(lookup) THEN Extracted(Nil, obj)
    ELSE ExtractValueRound(obj, lookup, i,
             ExtractValue(ObjGet(obj, Join(SubSeq(lookup, 1, i))),
                          SubSeq(lookup, i + 1, Len(lookup))))

\* The round that drops the key it tried when nothing was found under it.
ExtractValueRoundDropsMiss(obj, lookup, i, e) ==
    IF e.val # Nil
    THEN ExtractFound(obj, Join(SubSeq(lookup, 1, i)), e, i = Len(lookup))
    ELSE ExtractValueFrom(ObjDel(obj, Join(SubSeq(lookup, 1, i))), lookup, i + 1)

ExtractValueRound(obj, lookup, i, e) ==
    IF e.val # Nil
    THEN ExtractFound(obj, Join(SubSeq(lookup, 1, i)), e, i = Len(lookup))
    ELSE ExtractValueFrom(obj, lookup, i + 1)

\* jsonutils.ExtractValueOfType, with every value of the looked up path
\* taken whatever its type.
ExtractValueOfAnyType(obj, lookup, typ) == ExtractValue(obj, lookup)

\* jsonutils.ExtractValueOfType; ExtractValueOfTypeFrom is its loop.
RECURSIVE ExtractValueOfType(_, _, _)
RECURSIVE ExtractValueOfTypeFrom(_, _, _, _)
RECURSIVE ExtractValueOfTypeRound(_, _, _, _, _)
ExtractValueOfType(obj, lookup, typ) ==
    IF obj = Nil THEN Extracted(Nil, obj)
    ELSE IF Len(lookup) = 0
    THEN IF obj.typ = typ THEN Extracted(obj, obj) ELSE Extracted(Nil, obj)
    ELSE IF obj.typ # "TypeObject" THEN Extracted(Nil, obj)
    ELSE IF Len(lookup) = 1
    THEN IF ObjGet(obj, lookup[1]) = Nil \/ ObjGet(obj, lookup[1]).typ # typ
         THEN Extracted(Nil, obj)
         ELSE Extracted(ObjGet(obj, lookup[1]), ObjDel(obj, lookup[1]))
    ELSE ExtractValueOfTypeFrom(obj, lookup, typ, 1)

ExtractValueOfTypeFrom(obj, lookup, typ, i) ==
    IF i > Len(lookup) THEN Extracted(Nil, obj)
    ELSE ExtractValueOfTypeRound(obj, lookup, typ, i,
             ExtractValueOfType(ObjGet(obj, Join(SubSeq(lookup, 1, i))),
                                SubSeq(lookup, i + 1, Len(lookup)), typ))

ExtractValueOfTypeRound(obj, lookup, typ, i, e) ==
    IF e.val # Nil
    THEN ExtractFound(obj, Join(SubSeq(lookup, 1, i)), e, i = Len(lookup))
    ELSE ExtractValueOfTypeFrom(obj, lookup, typ, i + 1)

\* ------------------------------------------------------------------------
\* RPN steps (rpn.go) and the Filter (kqlog.go).  One record shape serves
\* every rpn* struct; a struct's missing fields hold their zero values.
\* ------------------------------------------------------------------------
NoTerm == term(<<>>, FALSE, <<>>)

Step(op, field, terms, rawTerms, t, less) ==
    [op |-> op, field |-> field, terms |-> terms, rawTerms |-> rawTerms,
     term |-> t, logLevelLess |-> less]

rpnExistsQuery(field) == Step("rpnExistsQuery", field, <<>>, <<>>, NoTerm, "nil")
rpnTermsQuery(field, terms) == Step("rpnTermsQuery", field, terms, <<>>, NoTerm, "nil")
rpnMatchAllTermsQuery(field, terms) ==
    Step("rpnMatchAllTermsQuery", field, terms, <<>>, NoTerm, "nil")
rpnDefaultFieldsTermsQuery(rawTerms) ==
    Step("rpnDefaultFieldsTermsQuery", <<>>, <<>>, rawTerms, NoTerm, "nil")
rpnRangeQuery(op, field, t, less) == Step(op, field, <<>>, <<>>, t, less)
rpnAnd == Step("rpnAnd", <<>>, <<>>, <<>>, NoTerm, "nil")
rpnOr == Step("rpnOr", <<>>, <<>>, <<>>, NoTerm, "nil")
rpnNot == Step("rpnNot", <<>>, <<>>, <<>>, NoTerm, "nil")

RangeOps == {"rpnGtRangeQuery", "rpnGteRangeQuery", "rpnLtRangeQuery", "rpnLteRangeQuery"}

\* ------------------------------------------------------------------------
\* The parser (parse.go).  p.state is the state function parse() calls
\* next; "nil" ends its loop.  p.fatal records a panic or an lg.Fatalf,
\* which ends the process.
\* ------------------------------------------------------------------------
NoErr == [msg |-> "nil", args |-> <<>>, pos |-> 0, ctx |-> <<>>]

newParser(kql, logLevelLess) ==
    [kql |-> kql, logLevelLess |-> logLevelLess, lex |-> lex(kql),
     lookAheadTok |-> NoTok, stagedOps |-> <<>>, field |-> NoTok,
     incompleteBoolOp |-> FALSE, filter |-> [steps |-> <<>>], err |-> NoErr,
     state |-> "parseBeforeQuery", fatal |-> "none",
     received |-> <<>>,   \* history: the tokens received from p.lex.tokens
     consumed |-> <<>>]   \* history: the tokens next() returned, less those
                          \* handed back with backup()

Fatal(ps, msg) == IF ps.fatal # "none" THEN ps ELSE [ps EXCEPT !.fatal = msg]

addStep(ps, step) == [ps EXCEPT !.filter.steps = Append(@, step)]

addBoolOp(ps, t) ==
    CASE t.typ = "tokTypeAnd" -> addStep(ps, rpnAnd)
      [] t.typ = "tokTypeOr" -> addStep(ps, rpnOr)
      [] t.typ = "tokTypeNot" -> addStep(ps, rpnNot)
      [] OTHER -> Fatal(ps, "token is not a bool op token")

opPrecedenceFromTokType(typ) ==
    CASE typ = "tokTypeOr" -> 1
      [] typ = "tokTypeAnd" -> 2
      [] typ = "tokTypeNot" -> 3
      [] OTHER -> 0

\* The loop that pops only the staged operators of higher precedence and
\* leaves one of equal precedence staged.
RECURSIVE stageBoolOpLoopHigherOnly(_, _)
stageBoolOpLoopHigherOnly(ps, precedence) ==
    IF Len(ps.stagedOps) = 0 THEN ps
    ELSE IF Last(ps.stagedOps).typ = "tokTypeOpenParen" THEN ps
    ELSE IF opPrecedenceFromTokType(Last(ps.stagedOps).typ) > precedence
    THEN stageBoolOpLoopHigherOnly(
             addBoolOp([ps EXCEPT !.stagedOps = Front(@)], Last(ps.stagedOps)),
             precedence)
    ELSE ps

\* The loop of stageBoolOp: pop and emit the staged operators of at least
\* the given precedence, stopping at an open parenthesis.
RECURSIVE stageBoolOpLoop(_, _)
stageBoolOpLoop(ps, precedence) ==
    IF Len(ps.stagedOps) = 0 THEN ps
    ELSE IF Last(ps.stagedOps).typ = "tokTypeOpenParen" THEN ps
    ELSE IF opPrecedenceFromTokType(Last(ps.stagedOps).typ) >= precedence
    THEN stageBoolOpLoop(
             addBoolOp([ps EXCEPT !.stagedOps = Front(@)], Last(ps.stagedOps)),
             precedence)
    ELSE ps

stageBoolOp(ps, opTok) ==
    [stageBoolOpLoop(ps, opPrecedenceFromTokType(opTok.typ))
         EXCEPT !.stagedOps = Append(@, opTok)]

\* next, peek and backup of the parser: [tok, p].  Received(ps, r) is the
\* parser after the receive r from its lexer.
Received(ps, r) == [ps EXCEPT !.lex = r.l, !.received = Append(@, r.tok)]

ParserNext(ps) ==
    IF ps.lookAheadTok # NoTok
    THEN [tok |-> ps.lookAheadTok,
          p |-> [ps EXCEPT !.lookAheadTok = NoTok,
                           !.consumed = Append(@, ps.lookAheadTok)]]
    ELSE [tok |-> nextToken(ps.lex).tok,
          p |-> [Received(ps, nextToken(ps.lex))
                     EXCEPT !.consumed = Append(@, nextToken(ps.lex).tok)]]

\* peek that hands the token out without keeping it in the slot.
ParserPeekForgets(ps) ==
    [tok |-> nextToken(ps.lex).tok, p |-> Received(ps, nextToken(ps.lex))]

ParserPeek(ps) ==
    IF ps.lookAheadTok # NoTok
    THEN [tok |-> NoTok, p |-> Fatal(ps, "cannot parser.peek(), lookAheadTok is in used")]
    ELSE [tok |-> nextToken(ps.lex).tok,
          p |-> [Received(ps, nextToken(ps.lex))
                     EXCEPT !.lookAheadTok = nextToken(ps.lex).tok]]

ParserBackup(ps, tok) ==
    IF ps.lookAheadTok # NoTok
    THEN Fatal(ps, "cannot parser.backup(), lookAheadTok is in used")
    ELSE [ps EXCEPT !.lookAheadTok = tok,
                    !.consumed = IF @ # <<>> /\ Last(@) = tok THEN Front(@) ELSE @]

\* strings.Repeat(c, n)
RECURSIVE Repeat(_, _)
Repeat(c, n) == IF n <= 0 THEN <<>> ELSE <<c>> \o Repeat(c, n - 1)

Indent == <<"\n", " ", " ", " ", " ">>

\* The context errorfAt builds with Sprintf: the KQL on a line, and the
\* caret on the next under offset pos.
errorContext(kql, pos) == Indent \o kql \o Indent \o Repeat(".", pos) \o <<"^">>

\* The text fmt prints for a verb at the head of s once every operand is
\* used: [out, rest].  Flags are skipped, `%%` is a percent sign, the end
\* of the string is NOVERB, any other verb is MISSING.
FmtFlags == {"#", "0", "+", "-", " "}

RECURSIVE FmtVerb(_)
FmtVerb(s) ==
    IF s = <<>> THEN [out |-> <<"%", "!", "(", "N", "O", "V", "E", "R", "B", ")">>,
                      rest |-> <<>>]
    ELSE IF Head(s) \in FmtFlags THEN FmtVerb(Tail(s))
    ELSE IF Head(s) = "%" THEN [out |-> <<"%">>, rest |-> Tail(s)]
    ELSE [out |-> <<"%", "!", Head(s), "(", "M", "I", "S", "S", "I", "N", "G", ")">>,
          rest |-> Tail(s)]

\* errorfAt appends the context to the format and not to the operands:
\* Errorf reads it as format text, after the operands of the message are
\* used up.
RECURSIVE FmtNoOperands(_)
FmtNoOperands(s) ==
    IF s = <<>> THEN <<>>
    ELSE IF Head(s) # "%" THEN <<Head(s)>> \o FmtNoOperands(Tail(s))
    ELSE FmtVerb(Tail(s)).out \o FmtNoOperands(FmtVerb(Tail(s)).rest)

errorfAt(ps, pos, msg, args) ==
    [ps EXCEPT !.err = [msg |-> msg, args |-> args, pos |-> pos,
                        ctx |-> FmtNoOperands(errorContext(ps.kql, pos))],
               !.state = "nil"]

Goto(ps, state) == [ps EXCEPT !.state = state]

\* parseErrorTok after its `p.next()`, n.
parseErrorTokOn(n) == errorfAt(n.p, n.tok.pos, "%s", n.tok.val)

\* parseErrorTok that takes its token from the lexer and not from the
\* look-ahead slot.
parseErrorTokFromLexer(ps) ==
    parseErrorTokOn(ParserNext([ps EXCEPT !.lookAheadTok = NoTok]))

parseErrorTok(ps) == parseErrorTokOn(ParserNext(ps))

RangeOpFromTokType(typ) ==
    CASE typ = "tokTypeGt" -> "rpnGtRangeQuery"
      [] typ = "tokTypeGte" -> "rpnGteRangeQuery"
      [] typ = "tokTypeLt" -> "rpnLtRangeQuery"
      [] typ = "tokTypeLte" -> "rpnLteRangeQuery"
      [] OTHER -> "invalid"

\* newTerm as the parser calls it: the term, and the parser after the call
\* (newTerm exits the process on a value ending in an unescaped backslash).
TermOf(val) == IF newTermFatal(val) THEN NoTerm ELSE newTerm(val)

TermFatal(ps, val) ==
    IF newTermFatal(val) THEN Fatal(ps, "term ends in unescaped backslash") ELSE ps

\* parseRangeQuery after its two `p.next()`: the operator token and n2.
parseRangeQueryOn(opTok, n2) ==
    CASE n2.tok.typ = "tokTypeError" ->
           Goto(ParserBackup(n2.p, n2.tok), "parseErrorTok")
      [] n2.tok.typ = "tokTypeUnquotedLiteral" ->
           IF RangeOpFromTokType(opTok.typ) = "invalid"
           THEN Fatal(n2.p, "invalid opTok.typ while parsing range query")
           ELSE Goto([addStep(TermFatal(n2.p, n2.tok.val),
                              rpnRangeQuery(RangeOpFromTokType(opTok.typ),
                                            n2.p.field.val, TermOf(n2.tok.val),
                                            n2.p.logLevelLess))
                          EXCEPT !.field = NoTok],
                     "parseAfterQuery")
      [] OTHER ->
           errorfAt(n2.p, n2.tok.pos, "expected a literal after '%s'; got %s",
                    <<opTok.typ, n2.tok.typ>>)

parseRangeQueryOp(n1) == parseRangeQueryOn(n1.tok, ParserNext(n1.p))

parseRangeQuery(ps) == parseRangeQueryOp(ParserNext(ps))

\* The loop of parseTermsQuery over the literals after `field:term`:
\* [p, terms, haveExistsTerm].  termsLoopOn is an iteration after its
\* `p.peek()`, k.
RECURSIVE termsLoop(_, _, _)
RECURSIVE termsLoopOn(_, _, _)
termsLoop(ps, terms, haveExistsTerm) ==
    termsLoopOn(ParserPeek(ps), terms, haveExistsTerm)

termsLoopOn(k, terms, haveExistsTerm) ==
    IF k.p.fatal = "none" /\ k.tok.typ = "tokTypeUnquotedLiteral"
    THEN termsLoop(TermFatal(ParserNext(k.p).p, k.tok.val),
                   Append(terms, TermOf(k.tok.val)),
                   IF k.tok.val = <<"*">> THEN TRUE ELSE haveExistsTerm)
    ELSE [p |-> k.p, terms |-> terms, haveExistsTerm |-> haveExistsTerm]

\* The step of a group that keeps `*` as a term like any other.
groupStepNoExists(field, terms, matchAll, haveExistsTerm) ==
    IF matchAll THEN rpnMatchAllTermsQuery(field, terms)
    ELSE rpnTermsQuery(field, terms)

\* The step of a group that is a TermsQuery whatever its operator.
groupStepAnyOf(field, terms, matchAll, haveExistsTerm) ==
    IF haveExistsTerm THEN rpnExistsQuery(field)
    ELSE rpnTermsQuery(field, terms)

\* The step `field:( ... )` adds at its close parenthesis.
groupStep(field, terms, matchAll, haveExistsTerm) ==
    IF haveExistsTerm THEN rpnExistsQuery(field)
    ELSE IF matchAll THEN rpnMatchAllTermsQuery(field, terms)
    ELSE rpnTermsQuery(field, terms)

\* The loop of parseTermsQuery over `field:(term op term ...)` at iteration
\* i.  groupLoopTerm is the iteration after its first `p.next()`, n1;
\* groupLoopOp the iteration after its second, n2, with the term added.
RECURSIVE groupLoop(_, _, _, _, _)
RECURSIVE groupLoopTerm(_, _, _, _, _)
RECURSIVE groupLoopOp(_, _, _, _, _)
groupLoop(ps, i, terms, matchAll, haveExistsTerm) ==
    groupLoopTerm(ParserNext(ps), i, terms, matchAll, haveExistsTerm)

groupLoopTerm(n1, i, terms, matchAll, haveExistsTerm) ==
    IF n1.tok.typ # "tokTypeUnquotedLiteral"
    THEN errorfAt(n1.p, n1.tok.pos, "expected literal, got %s", <<n1.tok.typ>>)
    ELSE groupLoopOp(ParserNext(TermFatal(n1.p, n1.tok.val)), i,
                     Append(terms, TermOf(n1.tok.val)), matchAll,
                     IF n1.tok.val = <<"*">> THEN TRUE ELSE haveExistsTerm)

groupLoopOp(n2, i, terms, matchAll, haveExistsTerm) ==
    CASE n2.tok.typ = "tokTypeCloseParen" ->
           Goto([addStep(n2.p, groupStep(n2.p.field.val, terms, matchAll,
                                         haveExistsTerm))
                     EXCEPT !.field = NoTok],
                "parseAfterQuery")
      [] n2.tok.typ = "tokTypeOr" ->
           IF i = 0 THEN groupLoop(n2.p, i + 1, terms, FALSE, haveExistsTerm)
           ELSE IF matchAll
           THEN errorfAt(n2.p, n2.tok.pos,
                    "cannot mix 'and' and 'or' in parenthesized value group", <<>>)
           ELSE groupLoop(n2.p, i + 1, terms, matchAll, haveExistsTerm)
      [] n2.tok.typ = "tokTypeAnd" ->
           IF i = 0 THEN groupLoop(n2.p, i + 1, terms, TRUE, haveExistsTerm)
           ELSE IF ~matchAll
           THEN errorfAt(n2.p, n2.tok.pos,
                    "cannot mix 'and' and 'or' in parenthesized value group", <<>>)
           ELSE groupLoop(n2.p, i + 1, terms, matchAll, haveExistsTerm)
      [] OTHER ->
           errorfAt(n2.p, n2.tok.pos, "expected ')', 'or', or 'and'; got %s",
                    <<n2.tok.typ>>)

\* The end of the `field:term ...` case without the exists query.
termsStepNoExists(r) ==
    Goto([addStep(r.p, rpnTermsQuery(r.p.field.val, r.terms)) EXCEPT !.field = NoTok],
         "parseAfterQuery")

\* The end of the `field:term ...` case, r being the result of its loop.
termsStep(r) ==
    Goto([addStep(r.p, IF r.haveExistsTerm THEN rpnExistsQuery(r.p.field.val)
                       ELSE rpnTermsQuery(r.p.field.val, r.terms))
              EXCEPT !.field = NoTok],
         "parseAfterQuery")

\* parseTermsQuery after the colon is consumed and the `p.next()`, n.
parseTermsQueryOn(n) ==
    CASE n.tok.typ = "tokTypeUnquotedLiteral" ->
           termsStep(termsLoop(TermFatal(n.p, n.tok.val), <<TermOf(n.tok.val)>>,
                               n.tok.val = <<"*">>))
      [] n.tok.typ = "tokTypeOpenParen" -> groupLoop(n.p, 0, <<>>, FALSE, FALSE)
      [] OTHER ->
           errorfAt(n.p, n.tok.pos, "expected a literal or '('; got %s", <<n.tok.typ>>)

parseTermsQuery(ps) == parseTermsQueryOn(ParserNext(ParserNext(ps).p))

\* The loop that stops at the open parenthesis and leaves it staged.
RECURSIVE closeParenLoopKeepsParen(_, _)
closeParenLoopKeepsParen(ps, tok) ==
    IF Len(ps.stagedOps) = 0
    THEN errorfAt(ps, tok.pos, "unmatched close parenthesis", <<>>)
    ELSE IF Last(ps.stagedOps).typ = "tokTypeOpenParen"
    THEN Goto(ps, "parseAfterQuery")
    ELSE closeParenLoopKeepsParen(addBoolOp([ps EXCEPT !.stagedOps = Front(@)],
                                            Last(ps.stagedOps)), tok)

\* The loop of parseAfterQuery at a close parenthesis: pop and emit the
\* staged operators up to, and including, the open parenthesis.
RECURSIVE closeParenLoop(_, _)
closeParenLoop(ps, tok) ==
    IF Len(ps.stagedOps) = 0
    THEN errorfAt(ps, tok.pos, "unmatched close parenthesis", <<>>)
    ELSE IF Last(ps.stagedOps).typ = "tokTypeOpenParen"
    THEN Goto([ps EXCEPT !.stagedOps = Front(@)], "parseAfterQuery")
    ELSE closeParenLoop(addBoolOp([ps EXCEPT !.stagedOps = Front(@)],
                                  Last(ps.stagedOps)), tok)

\* parseAfterQuery after its `p.next()`, n.
parseAfterQueryOn(n) ==
    CASE n.tok.typ = "tokTypeError" -> Goto(ParserBackup(n.p, n.tok), "parseErrorTok")
      [] n.tok.typ = "tokTypeEOF" -> Goto(ParserBackup(n.p, n.tok), "parseEOFTok")
      [] n.tok.typ = "tokTypeCloseParen" ->
           IF n.p.incompleteBoolOp
           THEN errorfAt(n.p, n.tok.pos, "incomplete boolean operator", <<>>)
           ELSE closeParenLoop(n.p, n.tok)
      [] n.tok.typ \in {"tokTypeAnd", "tokTypeOr"} ->
           Goto([stageBoolOp(n.p, n.tok) EXCEPT !.incompleteBoolOp = TRUE],
                "parseBeforeQuery")
      [] OTHER ->
           errorfAt(n.p, n.tok.pos, "expect 'and', 'or', or ')'; got %s", <<n.tok.typ>>)

parseAfterQuery(ps) == parseAfterQueryOn(ParserNext(ps))

\* The loop of parseEOFTok: emit all remaining staged operators.
RECURSIVE popAllLoop(_)
popAllLoop(ps) ==
    IF Len(ps.stagedOps) = 0 THEN ps
    ELSE popAllLoop(addBoolOp([ps EXCEPT !.stagedOps = Front(@)], Last(ps.stagedOps)))

\* parseEOFTok after its `p.next()`, n.
parseEOFTokOn(n) ==
    IF n.tok.typ # "tokTypeEOF"
    THEN Fatal(n.p, "parseEOFTok called with token other than EOF")
    ELSE IF n.p.incompleteBoolOp
    THEN errorfAt(n.p, n.tok.pos, "incomplete boolean operator", <<>>)
    ELSE Goto(popAllLoop(n.p), "nil")

parseEOFTok(ps) == parseEOFTokOn(ParserNext(ps))

\* The loop of parseBeforeQuery over the terms of a query without a field
\* name: [p, terms, termTok], termTok being the first non-literal token.
\* defaultTermsLoopOn is an iteration after its `p.next()`, n.
RECURSIVE defaultTermsLoop(_, _)
RECURSIVE defaultTermsLoopOn(_, _)
defaultTermsLoop(ps, terms) == defaultTermsLoopOn(ParserNext(ps), terms)

defaultTermsLoopOn(n, terms) ==
    IF n.tok.typ = "tokTypeUnquotedLiteral"
    THEN defaultTermsLoop(n.p, Append(terms, n.tok.val))
    ELSE [p |-> n.p, terms |-> terms, termTok |-> n.tok]

\* The end of the case of a query without a field name, r being the result
\* of its loop.
defaultTermsStep(r) ==
    Goto(addStep(ParserBackup(r.p, r.termTok), rpnDefaultFieldsTermsQuery(r.terms)),
         "parseAfterQuery")

\* parseBeforeQuery at a literal tok, after its `p.peek()`, k.
parseBeforeQueryLiteral(tok, k) ==
    CASE k.tok.typ = "tokTypeError" -> Goto(k.p, "parseErrorTok")
      [] k.tok.typ \in {"tokTypeGt", "tokTypeGte", "tokTypeLt", "tokTypeLte"} ->
           Goto([k.p EXCEPT !.field = tok], "parseRangeQuery")
      [] k.tok.typ = "tokTypeColon" ->
           Goto([k.p EXCEPT !.field = tok], "parseTermsQuery")
      [] OTHER -> defaultTermsStep(defaultTermsLoop(k.p, <<tok.val>>))

\* parseBeforeQuery after its `p.next()`, n.
parseBeforeQueryOn(n) ==
    CASE n.tok.typ = "tokTypeError" -> Goto(ParserBackup(n.p, n.tok), "parseErrorTok")
      [] n.tok.typ = "tokTypeEOF" -> Goto(ParserBackup(n.p, n.tok), "parseEOFTok")
      [] n.tok.typ = "tokTypeOpenParen" ->
           Goto([n.p EXCEPT !.stagedOps = Append(@, n.tok)], "parseBeforeQuery")
      [] n.tok.typ = "tokTypeNot" ->
           Goto([stageBoolOp(n.p, n.tok) EXCEPT !.incompleteBoolOp = TRUE],
                "parseBeforeQuery")
      [] n.tok.typ = "tokTypeUnquotedLiteral" ->
           parseBeforeQueryLiteral(
               n.tok, ParserPeek([n.p EXCEPT !.incompleteBoolOp = FALSE]))
      [] OTHER ->
           errorfAt(n.p, n.tok.pos, "expecting a literal, 'not', or '('; got %s",
                    <<n.tok.typ>>)

parseBeforeQuery(ps) == parseBeforeQueryOn(ParserNext(ps))

\* A panic or lg.Fatalf ends the process, whatever state function ran.
Exited(ps) == IF ps.fatal # "none" THEN [ps EXCEPT !.state = "exited"] ELSE ps

\* parse() that hands out p.filter without looking at p.err.
NewFilterResultIgnoresErr(ps) == [f |-> "filter", err |-> ps.err, returned |-> TRUE]

\* What parse(), and so NewFilter, returns once the state is nil.
NewFilterResult(ps) ==
    IF ps.err # NoErr
    THEN [f |-> "nil", err |-> ps.err, returned |-> TRUE]
    ELSE [f |-> "filter", err |-> NoErr, returned |-> TRUE]

\* ------------------------------------------------------------------------
\* Log level comparators (LogLevelLessFn).  "nil" is no comparator.
\* ------------------------------------------------------------------------
LevelTrace == <<"t", "r", "a", "c", "e">>
LevelDebug == <<"d", "e", "b", "u", "g">>
LevelInfo == <<"i", "n", "f", "o">>
LevelWarn == <<"w", "a", "r", "n">>
LevelError == <<"e", "r", "r", "o", "r">>

limitedOrder == <<LevelTrace, LevelDebug, LevelInfo, LevelWarn, LevelError>>

\* indexOf of match_test.go
indexOf(items, val) ==
    LET hits == {i \in 1..Len(items) : items[i] = val}
    IN  IF hits = {} THEN -1 ELSE (CHOOSE i \in hits : \A j \in hits : i <= j) - 1

limitedLogLevelLess(level1, level2) ==
    LET idx1 == indexOf(limitedOrder, level1)
        idx2 == indexOf(limitedOrder, level2)
    IN  IF idx1 = -1 \/ idx2 = -1 THEN FALSE ELSE idx1 < idx2

\* levelValFromName of ecslog.go: the order value of a level name, or -1
\* for a name it does not know (ok false).
LevelWarning == <<"w", "a", "r", "n", "i", "n", "g">>
LevelDpanic == <<"d", "p", "a", "n", "i", "c">>
LevelPanic == <<"p", "a", "n", "i", "c">>
LevelFatal == <<"f", "a", "t", "a", "l">>

levelNames ==
    <<LevelTrace, LevelDebug, LevelInfo, LevelWarn, LevelWarning, LevelError,
      LevelDpanic, LevelPanic, LevelFatal>>

levelVals == <<10, 20, 30, 40, 40, 50, 60, 70, 80>>

levelValFromName(level) ==
    IF indexOf(levelNames, level) = -1 THEN -1
    ELSE levelVals[indexOf(levelNames, level) + 1]

\* LogLevelLess that compares the names as given, without lower-casing.
LogLevelLessCaseSensitive(level1, level2) ==
    /\ levelValFromName(level1) # -1
    /\ levelValFromName(level2) # -1
    /\ levelValFromName(level1) < levelValFromName(level2)

\* LogLevelLess that ends in val1 <= val2.
LogLevelLessOrEqual(level1, level2) ==
    /\ levelValFromName(ToLower(level1)) # -1
    /\ levelValFromName(ToLower(level2)) # -1
    /\ levelValFromName(ToLower(level1)) <= levelValFromName(ToLower(level2))

LogLevelLess(level1, level2) ==
    /\ levelValFromName(ToLower(level1)) # -1
    /\ levelValFromName(ToLower(level2)) # -1
    /\ levelValFromName(ToLower(level1)) < levelValFromName(ToLower(level2))

\* A call q.logLevelLess(level1, level2) through the function value.
CallLess(less, level1, level2) ==
    CASE less = "limitedLogLevelLess" -> limitedLogLevelLess(level1, level2)
      [] less = "LogLevelLess" -> LogLevelLess(level1, level2)
      [] OTHER -> FALSE

\* ------------------------------------------------------------------------
\* exec of the query steps (rpn.go).  Each Exec* gives [push, step, calls]:
\* the bool pushed, the step after the call (a range step caches the
\* number parsed from its term), and the comparator calls made.
\* ------------------------------------------------------------------------
FieldVal(q, rec) == LookupValue(rec, Split(q.field))

ExecResult(push, step, calls) == [push |-> push, step |-> step, calls |-> calls]

execExistsQuery(q, rec) == ExecResult(FieldVal(q, rec) # Nil, q, <<>>)

\* One case of the switch on the value's type: does term t, a copy of the
\* loop variable, match the scalar value?
termMatchesVal(t, val) ==
    CASE val.typ = "TypeNull" -> t.Val = <<"n", "u", "l", "l">>
      [] val.typ = "TypeString" -> MatchStringBytes(t, val.s)
      [] val.typ = "TypeNumber" -> GetNumVal(t).ok /\ GetNumVal(t).numVal = val.n
      [] val.typ = "TypeTrue" -> GetBoolVal(t).ok /\ GetBoolVal(t).boolVal = TRUE
      [] val.typ = "TypeFalse" -> GetBoolVal(t).ok /\ GetBoolVal(t).boolVal = FALSE
      [] OTHER -> FALSE

\* The loop of rpnTermsQuery.exec from term i on.  `for _, t := range`
\* copies each term, so the caches written belong to the copy.
RECURSIVE termsQueryLoop(_, _, _)
termsQueryLoop(terms, i, fieldVal) ==
    IF i > Len(terms) THEN FALSE
    ELSE IF fieldVal.typ \in {"TypeObject", "TypeArray"} THEN FALSE
    ELSE IF termMatchesVal(terms[i], fieldVal) THEN TRUE
    ELSE termsQueryLoop(terms, i + 1, fieldVal)

\* A terms query that also matches the members of an array value.
execTermsQueryArrayMember(q, rec) ==
    LET fieldVal == FieldVal(q, rec)
    IN  IF fieldVal = Nil THEN ExecResult(FALSE, q, <<>>)
        ELSE IF fieldVal.typ = "TypeArray"
        THEN ExecResult(\E j \in 1..Len(fieldVal.a) :
                            termsQueryLoop(q.terms, 1, fieldVal.a[j]), q, <<>>)
        ELSE ExecResult(termsQueryLoop(q.terms, 1, fieldVal), q, <<>>)

\* A terms query whose loop takes each term by reference, `t := &q.terms[i]`,
\* so that the conversions are cached in the terms of the Filter.
execTermsQueryByRef(q, rec) ==
    LET fieldVal == FieldVal(q, rec)
    IN  IF fieldVal = Nil THEN ExecResult(FALSE, q, <<>>)
        ELSE ExecResult(termsQueryLoop(q.terms, 1, fieldVal),
                        [q EXCEPT !.terms =
                            [i \in 1..Len(q.terms) |->
                                IF fieldVal.typ = "TypeNumber" THEN GetNumVal(q.terms[i]).t
                                ELSE IF fieldVal.typ \in {"TypeTrue", "TypeFalse"}
                                THEN GetBoolVal(q.terms[i]).t
                                ELSE q.terms[i]]],
                        <<>>)

execTermsQuery(q, rec) ==
    LET fieldVal == FieldVal(q, rec)
    IN  IF fieldVal = Nil THEN ExecResult(FALSE, q, <<>>)
        ELSE ExecResult(termsQueryLoop(q.terms, 1, fieldVal), q, <<>>)

\* FieldArrayLoop of rpnMatchAllTermsQuery.exec from item j on.
RECURSIVE fieldArrayLoop(_, _, _)
fieldArrayLoop(t, items, j) ==
    IF j > Len(items) THEN FALSE
    ELSE IF termMatchesVal(t, items[j]) THEN TRUE
    ELSE fieldArrayLoop(t, items, j + 1)

RECURSIVE matchAllLoop(_, _, _)
matchAllLoop(terms, i, fieldVal) ==
    IF i > Len(terms) THEN TRUE
    ELSE IF ~fieldArrayLoop(terms[i], fieldVal.a, 1) THEN FALSE
    ELSE matchAllLoop(terms, i + 1, fieldVal)

\* A match-all query that is satisfied by any one of its terms.
execMatchAllAnyTerm(q, rec) ==
    LET fieldVal == FieldVal(q, rec)
    IN  IF fieldVal = Nil THEN ExecResult(FALSE, q, <<>>)
        ELSE IF fieldVal.typ # "TypeArray" THEN ExecResult(FALSE, q, <<>>)
        ELSE ExecResult(\E i \in 1..Len(q.terms) :
                            fieldArrayLoop(q.terms[i], fieldVal.a, 1), q, <<>>)

execMatchAllTermsQuery(q, rec) ==
    LET fieldVal == FieldVal(q, rec)
    IN  IF fieldVal = Nil THEN ExecResult(FALSE, q, <<>>)
        ELSE IF fieldVal.typ # "TypeArray" THEN ExecResult(FALSE, q, <<>>)
        ELSE ExecResult(matchAllLoop(q.terms, 1, fieldVal), q, <<>>)

execDefaultFieldsTermsQuery(q, rec) == ExecResult(FALSE, q, <<>>)

LogLevelField == <<"l", "o", "g", ".", "l", "e", "v", "e", "l">>

\* The special case taken for a string value of any field.
IsLogLevelCaseAnyField(q, fieldVal) ==
    q.logLevelLess # "nil" /\ fieldVal.typ = "TypeString"

IsLogLevelCase(q, fieldVal) ==
    q.logLevelLess # "nil" /\ q.field = LogLevelField /\ fieldVal.typ = "TypeString"

\* The switch with the number comparison made whether or not the term has
\* a number value (the zero value stands in when it has none).
rangeSwitchNoOkTest(q, fieldVal, strCmp, numCmp) ==
    CASE fieldVal.typ = "TypeString" -> ExecResult(strCmp, q, <<>>)
      [] fieldVal.typ = "TypeNumber" ->
           ExecResult(numCmp, [q EXCEPT !.term = GetNumVal(q.term).t], <<>>)
      [] OTHER -> ExecResult(FALSE, q, <<>>)

\* The switch shared by the four range queries once the log.level case is
\* past: strCmp and numCmp are the comparisons of the operator.
rangeSwitch(q, fieldVal, strCmp, numCmp) ==
    CASE fieldVal.typ = "TypeString" -> ExecResult(strCmp, q, <<>>)
      [] fieldVal.typ = "TypeNumber" ->
           LET g == GetNumVal(q.term)
               q1 == [q EXCEPT !.term = g.t]
           IN  IF ~g.ok THEN ExecResult(FALSE, q1, <<>>)
               ELSE ExecResult(numCmp, q1, <<>>)
      [] OTHER -> ExecResult(FALSE, q, <<>>)

execGtRangeQuery(q, rec) ==
    LET fieldVal == FieldVal(q, rec)
    IN  IF fieldVal = Nil THEN ExecResult(FALSE, q, <<>>)
        ELSE IF IsLogLevelCase(q, fieldVal)
        THEN ExecResult(CallLess(q.logLevelLess, q.term.Val, fieldVal.s), q,
                        <<<<q.term.Val, fieldVal.s>>>>)
        ELSE rangeSwitch(q, fieldVal, StrLess(q.term.Val, fieldVal.s),
                         NumLess(GetNumVal(q.term).numVal, fieldVal.n))

execGteRangeQuery(q, rec) ==
    LET fieldVal == FieldVal(q, rec)
    IN  IF fieldVal = Nil THEN ExecResult(FALSE, q, <<>>)
        ELSE IF IsLogLevelCase(q, fieldVal)
        THEN ExecResult(~CallLess(q.logLevelLess, fieldVal.s, q.term.Val), q,
                        <<<<fieldVal.s, q.term.Val>>>>)
        ELSE rangeSwitch(q, fieldVal, ~StrLess(fieldVal.s, q.term.Val),
                         ~NumLess(fieldVal.n, GetNumVal(q.term).numVal))

execLtRangeQuery(q, rec) ==
    LET fieldVal == FieldVal(q, rec)
    IN  IF fieldVal = Nil THEN ExecResult(FALSE, q, <<>>)
        ELSE IF IsLogLevelCase(q, fieldVal)
        THEN ExecResult(CallLess(q.logLevelLess, fieldVal.s, q.term.Val), q,
                        <<<<fieldVal.s, q.term.Val>>>>)
        ELSE rangeSwitch(q, fieldVal, StrLess(fieldVal.s, q.term.Val),
                         NumLess(fieldVal.n, GetNumVal(q.term).numVal))

execLteRangeQuery(q, rec) ==
    LET fieldVal == FieldVal(q, rec)
    IN  IF fieldVal = Nil THEN ExecResult(FALSE, q, <<>>)
        ELSE IF IsLogLevelCase(q, fieldVal)
        THEN ExecResult(~CallLess(q.logLevelLess, q.term.Val, fieldVal.s), q,
                        <<<<q.term.Val, fieldVal.s>>>>)
        ELSE rangeSwitch(q, fieldVal, ~StrLess(q.term.Val, fieldVal.s),
                         ~NumLess(GetNumVal(q.term).numVal, fieldVal.n))

\* ------------------------------------------------------------------------
\* Filter.Match (kqlog.go) with its boolStack (stacks.go).  m.pc is "idle",
\* "exec" (in the loop over the steps, at step m.ip), "returned", "panic"
\* (a Pop of the empty stack) or "fatal" (the final stack length is not 1).
\* ------------------------------------------------------------------------
IdleMatchState ==
    [pc |-> "idle", rec |-> Nil, stack |-> <<>>, ip |-> 0, result |-> FALSE,
     calls |-> 0, lessCalls |-> <<>>]

\* boolStack.Pop n times, then Push v: the state of the call after the exec
\* of a boolean operator that pops n operands.
PopPush(ms, n, v) ==
    IF Len(ms.stack) < n
    THEN [ms EXCEPT !.pc = "panic"]
    ELSE [ms EXCEPT !.stack = Append(SubSeq(@, 1, Len(@) - n), v), !.ip = @ + 1]

Push(ms, v) == [ms EXCEPT !.stack = Append(@, v), !.ip = @ + 1]

Top(ms, k) == ms.stack[Len(ms.stack) + 1 - k]

execAnd(ms) == PopPush(ms, 2, IF Len(ms.stack) >= 2 THEN Top(ms, 1) /\ Top(ms, 2) ELSE FALSE)

execOr(ms) == PopPush(ms, 2, IF Len(ms.stack) >= 2 THEN Top(ms, 1) \/ Top(ms, 2) ELSE FALSE)

\* A Not that pushes the negation and leaves its operand on the stack.
execNotKeepsOperand(ms) ==
    IF Len(ms.stack) < 1 THEN [ms EXCEPT !.pc = "panic"]
    ELSE [ms EXCEPT !.stack = Append(@, ~Top(ms, 1)), !.ip = @ + 1]

execNot(ms) == PopPush(ms, 1, IF Len(ms.stack) >= 1 THEN ~Top(ms, 1) ELSE FALSE)

\* The start of Match: an empty filter matches at once.
MatchEnter(ms, steps, rec) ==
    IF Len(steps) = 0
    THEN [ms EXCEPT !.pc = "returned", !.rec = Nil, !.stack = <<>>, !.ip = 0,
                    !.result = TRUE, !.calls = @ + 1, !.lessCalls = <<>>]
    ELSE [ms EXCEPT !.pc = "exec", !.rec = rec, !.stack = <<>>, !.ip = 1,
                    !.calls = @ + 1, !.lessCalls = <<>>]

\* The end of Match, after the loop: the call returns the one element left
\* and its locals (rec, the stack) are gone.
MatchLeave(ms) ==
    IF Len(ms.stack) # 1
    THEN [ms EXCEPT !.pc = "fatal"]
    ELSE [ms EXCEPT !.pc = "returned", !.result = ms.stack[1], !.stack = <<>>,
                    !.rec = Nil, !.ip = 0, !.lessCalls = <<>>]

\* ------------------------------------------------------------------------
\* Filter compilation and matching as whole calls (kqlog.go), for callers
\* that run them to completion: parse() as the loop over the parser's
\* state functions, Match as the loop over the steps.
\* ------------------------------------------------------------------------
parseState(ps) ==
    CASE ps.state = "parseBeforeQuery" -> parseBeforeQuery(ps)
      [] ps.state = "parseRangeQuery" -> parseRangeQuery(ps)
      [] ps.state = "parseTermsQuery" -> parseTermsQuery(ps)
      [] ps.state = "parseAfterQuery" -> parseAfterQuery(ps)
      [] ps.state = "parseEOFTok" -> parseEOFTok(ps)
      [] ps.state = "parseErrorTok" -> parseErrorTok(ps)

RECURSIVE parseLoop(_)
parseLoop(ps) ==
    IF ps.state \in {"nil", "exited"} THEN ps
    ELSE parseLoop(Exited(parseState(ps)))

NilFilter == [set |-> FALSE, steps |-> <<>>]

\* NewFilter: the *Filter (nil on an error) and the error.
NewFilterOf(ps) ==
    IF NewFilterResult(ps).f = "filter"
    THEN [f |-> [set |-> TRUE, steps |-> ps.filter.steps], err |-> NoErr,
          fatal |-> ps.fatal]
    ELSE [f |-> NilFilter, err |-> ps.err, fatal |-> ps.fatal]

NewFilter(kql, logLevelLess) == NewFilterOf(parseLoop(newParser(kql, logLevelLess)))

execQueryStep(q, rec) ==
    CASE q.op = "rpnExistsQuery" -> execExistsQuery(q, rec)
      [] q.op = "rpnTermsQuery" -> execTermsQuery(q, rec)
      [] q.op = "rpnMatchAllTermsQuery" -> execMatchAllTermsQuery(q, rec)
      [] q.op = "rpnDefaultFieldsTermsQuery" -> execDefaultFieldsTermsQuery(q, rec)
      [] q.op = "rpnGtRangeQuery" -> execGtRangeQuery(q, rec)
      [] q.op = "rpnGteRangeQuery" -> execGteRangeQuery(q, rec)
      [] q.op = "rpnLtRangeQuery" -> execLtRangeQuery(q, rec)
      [] q.op = "rpnLteRangeQuery" -> execLteRangeQuery(q, rec)

RECURSIVE MatchLoop(_, _)
MatchLoopQuery(ms, steps, r) ==
    MatchLoop([Push(ms, r.push) EXCEPT !.lessCalls = @ \o r.calls],
              [steps EXCEPT ![ms.ip] = r.step])

\* The loop of Match from step ms.ip on: the call's final state and the
\* steps as the call leaves them.
MatchLoop(ms, steps) ==
    IF ms.pc # "exec" THEN [m |-> ms, steps |-> steps]
    ELSE IF ms.ip > Len(steps) THEN [m |-> MatchLeave(ms), steps |-> steps]
    ELSE CASE steps[ms.ip].op = "rpnAnd" -> MatchLoop(execAnd(ms), steps)
           [] steps[ms.ip].op = "rpnOr" -> MatchLoop(execOr(ms), steps)
           [] steps[ms.ip].op = "rpnNot" -> MatchLoop(execNot(ms), steps)
           [] OTHER -> MatchLoopQuery(ms, steps, execQueryStep(steps[ms.ip], ms.rec))

Match(steps, rec) == MatchLoop(MatchEnter(IdleMatchState, steps, rec), steps)

\* ------------------------------------------------------------------------
\* The Renderer (ecslog.go) and its formatter (formatters.go).
\*
\* A line of input is [first, len, rec, text]: its first byte ("" for the
\* empty line), its length in bytes, the value fastjson parses from it (Nil
\* when its bytes are not JSON) and text, which stands for its bytes.
\* ------------------------------------------------------------------------
maxLineLen == 16384

\* bufio.MaxScanTokenSize, the buffer limit of the bufio.Scanner that
\* bufio.NewScanner returns.
MaxScanTokenSize == 64 * 1024

MessageField == <<"m", "e", "s", "s", "a", "g", "e">>
TimestampField == <<"@", "t", "i", "m", "e", "s", "t", "a", "m", "p">>
EcsLookup == <<<<"e", "c", "s">>, <<"v", "e", "r", "s", "i", "o", "n">>>>
LogLevelLookup == <<<<"l", "o", "g">>, <<"l", "e", "v", "e", "l">>>>
LogLoggerLookup == <<<<"l", "o", "g">>, <<"l", "o", "g", "g", "e", "r">>>>
ServiceNameLookup == <<<<"s", "e", "r", "v", "i", "c", "e">>, <<"n", "a", "m", "e">>>>
HostHostnameLookup == <<<<"h", "o", "s", "t">>, <<"h", "o", "s", "t", "n", "a", "m", "e">>>>

RECURSIVE EncodedLen(_)
RECURSIVE EncodedMembersLen(_)
\* The length of the compact JSON text of a value of strings, objects,
\* true and null.
EncodedLen(v) ==
    CASE v.typ = "TypeString" -> Len(v.s) + 2
      [] v.typ = "TypeObject" -> 2 + EncodedMembersLen(v.o)
      [] OTHER -> 4

EncodedMembersLen(o) ==
    IF Len(o) = 0 THEN 0
    ELSE Len(o[1].k) + 3 + EncodedLen(o[1].v)
         + (IF Len(o) > 1 THEN 1 + EncodedMembersLen(Tail(o)) ELSE 0)

\* The line that is rec's JSON text followed by pad spaces.
JsonLine(rec, pad) ==
    [first |-> "{", len |-> EncodedLen(rec) + pad, rec |-> rec, text |-> <<>>]

\* The line of the bytes of text, none of them JSON, followed by pad more.
TextLine(text, pad) ==
    [first |-> IF Len(text) = 0 /\ pad = 0 THEN ""
               ELSE IF Len(text) = 0 THEN " " ELSE text[1],
     len |-> Len(text) + pad, rec |-> Nil, text |-> text]

NoLine == TextLine(<<>>, 0)

\* Value.GetStringBytes(key): the bytes of the string member key; nil when
\* rec has no such member or it is no string.
GetStringBytes(rec, key) ==
    IF rec.typ = "TypeObject" /\ ObjGet(rec, key).typ = "TypeString"
    THEN [nil |-> FALSE, s |-> ObjGet(rec, key).s]
    ELSE [nil |-> TRUE, s |-> <<>>]

\* Value.GetStringBytes() of a value that may be nil.
StringBytes(v) == IF v.typ = "TypeString" THEN v.s ELSE <<>>

Checked(ok, logLevel, rec) == [ok |-> ok, logLevel |-> logLevel, rec |-> rec]

\* isECSLoggingRecord that deletes the fields it finds from rec, as the
\* variant with dottedGetBytes does.
isECSLoggingRecordExtracting(rec, logLevel) ==
    IF GetStringBytes(rec, TimestampField).nil THEN Checked(FALSE, logLevel, rec)
    ELSE IF GetStringBytes(rec, MessageField).nil
    THEN Checked(FALSE, logLevel, ObjDel(rec, TimestampField))
    ELSE IF LookupValue(rec, EcsLookup).typ # "TypeString"
    THEN Checked(FALSE, logLevel, ObjDel(ObjDel(rec, TimestampField), MessageField))
    ELSE IF LookupValue(rec, LogLevelLookup).typ # "TypeString"
    THEN Checked(FALSE, logLevel,
                 ExtractValue(ObjDel(ObjDel(rec, TimestampField), MessageField),
                              EcsLookup).obj)
    ELSE Checked(TRUE, LookupValue(rec, LogLevelLookup).s,
                 ExtractValue(
                     ExtractValue(ObjDel(ObjDel(rec, TimestampField), MessageField),
                                  EcsLookup).obj,
                     LogLevelLookup).obj)

\* r.isECSLoggingRecord(rec), r.logLevel being logLevel before the call:
\* its result, r.logLevel after the call, and rec after the call.
isECSLoggingRecord(rec, logLevel) ==
    IF GetStringBytes(rec, TimestampField).nil THEN Checked(FALSE, logLevel, rec)
    ELSE IF GetStringBytes(rec, MessageField).nil THEN Checked(FALSE, logLevel, rec)
    ELSE IF LookupValue(rec, EcsLookup).typ # "TypeString"
    THEN Checked(FALSE, logLevel, rec)
    ELSE IF LookupValue(rec, LogLevelLookup).typ # "TypeString"
    THEN Checked(FALSE, logLevel, rec)
    ELSE Checked(TRUE, LookupValue(rec, LogLevelLookup).s, rec)

\* fmt's %5s: s right-justified in a field of width w.
RECURSIVE PadLeft(_, _)
PadLeft(s, w) == IF Len(s) >= w THEN s ELSE PadLeft(<<" ">> \o s, w)

\* formatDefaultTitleLine, given the results of its five extractions in
\* the order it makes them; a part that is absent is Nil.
TitleLine(logLevel, lg, sv, hh, ts, msg) ==
    [timestamp |-> StringBytes(ts.val), level |-> PadLeft(ToUpper(logLevel), 5),
     logger |-> lg.val, service |-> sv.val, host |-> hh.val,
     message |-> StringBytes(msg.val), extra |-> msg.obj.o]

formatDefaultTitleLineHost(logLevel, lg, sv, hh) ==
    TitleLine(logLevel, lg, sv, hh, ExtractValue(hh.obj, <<TimestampField>>),
              ExtractValue(ExtractValue(hh.obj, <<TimestampField>>).obj,
                           <<MessageField>>))

formatDefaultTitleLineService(logLevel, lg, sv) ==
    formatDefaultTitleLineHost(logLevel, lg, sv,
        ExtractValueOfType(sv.obj, HostHostnameLookup, "TypeString"))

formatDefaultTitleLineLogger(logLevel, lg) ==
    formatDefaultTitleLineService(logLevel, lg,
        ExtractValueOfType(lg.obj, ServiceNameLookup, "TypeString"))

formatDefaultTitleLine(logLevel, rec) ==
    formatDefaultTitleLineLogger(logLevel,
        ExtractValueOfType(rec, LogLoggerLookup, "TypeString"))

\* defaultFormatter.formatRecord: what it writes to b, as the parts of the
\* title line and the members left in rec, which follow it in order.
formatRecord(logLevel, rec) ==
    formatDefaultTitleLine(logLevel,
        ExtractValue(ExtractValue(rec, EcsLookup).obj, LogLevelLookup).obj)

NoText == TitleLine(<<>>, Extracted(Nil, Nil), Extracted(Nil, Nil),
                    Extracted(Nil, Nil), Extracted(Nil, Nil), Extracted(Nil, JObj(<<>>)))

\* What RenderFile did with one line, for the properties below: the path
\* its iteration took, whether LogLevelLess was asked about it, and the
\* record as Match and formatRecord were given it (Nil when not called).
LogEntry(line, path, levelChecked, matchRec, formatRec) ==
    [line |-> line, path |-> path, levelChecked |-> levelChecked,
     matchRec |-> matchRec, formatRec |-> formatRec]

\* What one Fprintln wrote, a newline at its end: the bytes of a line, or
\* the text of the formatter.  src is the number of the line it is for.
OutLine(src, line) == [src |-> src, kind |-> "line", line |-> line, text |-> NoText]
OutText(src, text) == [src |-> src, kind |-> "text", line |-> NoLine, text |-> text]

\* Renderer, with the locals of its RenderFile call: in is what the
\* scanner has not read yet, out what was written, err scanner.Err().
\* strict is not a field of Renderer: it records whether the caller asked
\* for strict mode (--strict of main_test.go), which no code here reads.
IdleRenderer ==
    [pc |-> "idle", strict |-> FALSE, levelFilter |-> <<>>, kqlFilter |-> NilFilter,
     line |-> NoLine, logLevel |-> <<>>, input |-> <<>>, in |-> <<>>, out |-> <<>>,
     err |-> "nil", scanned |-> 0, log |-> <<>>]

Scanned(r, entry) == [r EXCEPT !.in = Tail(@), !.scanned = @ + 1, !.log = Append(@, entry)]

\* A pass-through that writes the line ahead of what was written before.
passThroughAtFront(r, line, path) ==
    Scanned([r EXCEPT !.out = <<OutLine(r.scanned + 1, line)>> \o @],
            LogEntry(line, path, FALSE, Nil, Nil))

\* fmt.Fprintln(out, line); continue
passThrough(r, line, path) ==
    Scanned([r EXCEPT !.out = Append(@, OutLine(r.scanned + 1, line))],
            LogEntry(line, path, FALSE, Nil, Nil))

\* r.formatter.formatRecord(r, rec, &b); fmt.Fprintln(out, b.String())
rendered(r, line, rec, levelChecked, matchRec) ==
    Scanned([r EXCEPT !.out = Append(@, OutText(r.scanned + 1,
                                                formatRecord(r.logLevel, rec)))],
            LogEntry(line, "rendered", levelChecked, matchRec, rec))

\* The rest of the iteration after r.kqlFilter.Match(rec) gave mr.
renderMatched(r, line, rec, levelChecked, mr) ==
    IF mr.m.pc # "returned" THEN [r EXCEPT !.pc = "fatal"]
    ELSE IF ~mr.m.result
    THEN Scanned([r EXCEPT !.kqlFilter.steps = mr.steps],
                 LogEntry(line, "kqlFiltered", levelChecked, rec, Nil))
    ELSE rendered([r EXCEPT !.kqlFilter.steps = mr.steps], line, rec,
                  levelChecked, rec)

\* The iteration from the level filter on.
renderFiltered(r, line, rec) ==
    IF r.levelFilter # <<>> /\ LogLevelLess(r.logLevel, r.levelFilter)
    THEN Scanned(r, LogEntry(line, "levelFiltered", TRUE, Nil, Nil))
    ELSE IF r.kqlFilter.set
    THEN renderMatched(r, line, rec, r.levelFilter # <<>>,
                       Match(r.kqlFilter.steps, rec))
    ELSE rendered(r, line, rec, r.levelFilter # <<>>, Nil)

\* The iteration after r.isECSLoggingRecord(rec) gave chk.
renderChecked(r, line, chk) ==
    IF ~chk.ok
    THEN passThrough([r EXCEPT !.logLevel = chk.logLevel], line, "notECS")
    ELSE renderFiltered([r EXCEPT !.logLevel = chk.logLevel, !.line = line],
                        line, chk.rec)

\* One iteration of the loop of RenderFile, on the line the scanner gave.
renderLine(r, line) ==
    IF line.len > maxLineLen \/ line.len = 0 \/ line.first # "{"
    THEN passThrough(r, line, "unparsed")
    ELSE IF line.rec = Nil THEN passThrough(r, line, "parseError")
    ELSE renderChecked(r, line, isECSLoggingRecord(line.rec, r.logLevel))

\* ------------------------------------------------------------------------
\* Specification SpecLex: collectTokens (lex_test.go) on every input of at
\* most MaxLexLen characters.
\* ------------------------------------------------------------------------
LexAlphabet == {"a", "o", "r", "R", " ", "(", ")", ":", ">", "=", "\\", "{", "\"", Nul}

IdleParser == [newParser(<<>>, "nil") EXCEPT !.state = "idle"]
NotReturned == [f |-> "none", err |-> NoErr, returned |-> FALSE]
IdleJson == [pc |-> "idle"]
IdleCall == [pc |-> "idle"]
IdleFilter == [steps |-> <<>>]

\* No lexer yet: the test has not called lex().
IdleLexer == [lex(<<>>) EXCEPT !.pc = "idle"]

InitLex ==
    /\ l = IdleLexer
    /\ collected = <<>>
    /\ p = IdleParser
    /\ ret = NotReturned
    /\ filter = IdleFilter
    /\ m = IdleMatchState
    /\ jsonCall = IdleJson
    /\ renderer = IdleRenderer
    /\ fnCall = IdleCall

\* collectTokens calls lex(), which starts the goroutine.
LexStart ==
    /\ l.pc = "idle"
    /\ \E input \in SeqsUpTo(LexAlphabet, MaxLexLen) : l' = lex(input)
    /\ UNCHANGED <<collected, p, ret, filter, m, jsonCall, renderer, fnCall>>

CollectDone == collected # <<>> /\ Last(collected).typ \in TerminalTypes

LexStateInsideKQL ==
    /\ LexCanRun(l) /\ l.pc = "lexInsideKQL"
    /\ l' = LexInsideKQL(l)
    /\ UNCHANGED <<collected, p, ret, filter, m, jsonCall, renderer, fnCall>>

LexStateUnquotedLiteralOrBoolOp ==
    /\ LexCanRun(l) /\ l.pc = "lexUnquotedLiteralOrBoolOp"
    /\ l' = LexUnquotedLiteralOrBoolOp(l)
    /\ UNCHANGED <<collected, p, ret, filter, m, jsonCall, renderer, fnCall>>

LexStateResume ==
    /\ LexCanRun(l) /\ l.pc \in {"afterOpenParen", "afterCloseParen", "returnNil"}
    /\ l' = LexResume(l)
    /\ UNCHANGED <<collected, p, ret, filter, m, jsonCall, renderer, fnCall>>

\* One iteration of the loop of collectTokens, taken when a token is offered.
CollectToken ==
    /\ ~CollectDone
    /\ l.pending # NoTok
    /\ collected' = Append(collected, l.pending)
    /\ l' = [l EXCEPT !.pending = NoTok]
    /\ UNCHANGED <<p, ret, filter, m, jsonCall, renderer, fnCall>>

NextLex ==
    \/ LexStart
    \/ LexStateInsideKQL
    \/ LexStateUnquotedLiteralOrBoolOp
    \/ LexStateResume
    \/ CollectToken

SpecLex == InitLex /\ [][NextLex]_vars

\* ------------------------------------------------------------------------
\* The actions of NewFilter and Match.
\* ------------------------------------------------------------------------
Compiling == p.state \notin {"idle", "nil", "exited"} /\ ~ret.returned

\* The lexer goroutine runs on its own until it blocks in its next send, or
\* until it has closed the channel.
LexerRun ==
    /\ p.state # "idle"
    /\ LexCanRun(p.lex)
    /\ p' = [p EXCEPT !.lex = LexRun(@)]
    /\ UNCHANGED <<l, collected, ret, filter, m, jsonCall, renderer, fnCall>>

ParseBeforeQuery ==
    /\ Compiling /\ p.state = "parseBeforeQuery"
    /\ p' = Exited(parseBeforeQuery(p))
    /\ UNCHANGED <<l, collected, ret, filter, m, jsonCall, renderer, fnCall>>

ParseRangeQuery ==
    /\ Compiling /\ p.state = "parseRangeQuery"
    /\ p' = Exited(parseRangeQuery(p))
    /\ UNCHANGED <<l, collected, ret, filter, m, jsonCall, renderer, fnCall>>

ParseTermsQuery ==
    /\ Compiling /\ p.state = "parseTermsQuery"
    /\ p' = Exited(parseTermsQuery(p))
    /\ UNCHANGED <<l, collected, ret, filter, m, jsonCall, renderer, fnCall>>

ParseAfterQuery ==
    /\ Compiling /\ p.state = "parseAfterQuery"
    /\ p' = Exited(parseAfterQuery(p))
    /\ UNCHANGED <<l, collected, ret, filter, m, jsonCall, renderer, fnCall>>

ParseEOFTok ==
    /\ Compiling /\ p.state = "parseEOFTok"
    /\ p' = Exited(parseEOFTok(p))
    /\ UNCHANGED <<l, collected, ret, filter, m, jsonCall, renderer, fnCall>>

ParseErrorTok ==
    /\ Compiling /\ p.state = "parseErrorTok"
    /\ p' = Exited(parseErrorTok(p))
    /\ UNCHANGED <<l, collected, ret, filter, m, jsonCall, renderer, fnCall>>

\* parse() leaves its loop and NewFilter returns.
NewFilterReturn ==
    /\ p.state = "nil" /\ ~ret.returned
    /\ ret' = NewFilterResult(p)
    /\ filter' = IF NewFilterResult(p).f = "filter" THEN p.filter ELSE filter
    /\ UNCHANGED <<l, collected, p, m, jsonCall, renderer, fnCall>>

MatchBegin(recs, maxCalls) ==
    /\ ret.returned /\ ret.f = "filter"
    /\ m.pc \in {"idle", "returned"}
    /\ m.calls < maxCalls
    /\ \E rec \in recs : m' = MatchEnter(m, filter.steps, rec)
    /\ UNCHANGED <<l, collected, p, ret, filter, jsonCall, renderer, fnCall>>

AtStep(op) ==
    /\ m.pc = "exec"
    /\ m.ip <= Len(filter.steps)
    /\ filter.steps[m.ip].op = op

\* The exec of query step m.ip, with result r.
ExecQuery(r) ==
    /\ m' = [Push(m, r.push) EXCEPT !.lessCalls = @ \o r.calls]
    /\ filter' = [filter EXCEPT !.steps[m.ip] = r.step]
    /\ UNCHANGED <<l, collected, p, ret, jsonCall, renderer, fnCall>>

ExecExistsQuery ==
    AtStep("rpnExistsQuery") /\ ExecQuery(execExistsQuery(filter.steps[m.ip], m.rec))

ExecTermsQuery ==
    AtStep("rpnTermsQuery") /\ ExecQuery(execTermsQuery(filter.steps[m.ip], m.rec))

ExecMatchAllTermsQuery ==
    /\ AtStep("rpnMatchAllTermsQuery")
    /\ ExecQuery(execMatchAllTermsQuery(filter.steps[m.ip], m.rec))

ExecDefaultFieldsTermsQuery ==
    /\ AtStep("rpnDefaultFieldsTermsQuery")
    /\ ExecQuery(execDefaultFieldsTermsQuery(filter.steps[m.ip], m.rec))

ExecGtRangeQuery ==
    AtStep("rpnGtRangeQuery") /\ ExecQuery(execGtRangeQuery(filter.steps[m.ip], m.rec))

ExecGteRangeQuery ==
    AtStep("rpnGteRangeQuery") /\ ExecQuery(execGteRangeQuery(filter.steps[m.ip], m.rec))

ExecLtRangeQuery ==
    AtStep("rpnLtRangeQuery") /\ ExecQuery(execLtRangeQuery(filter.steps[m.ip], m.rec))

ExecLteRangeQuery ==
    AtStep("rpnLteRangeQuery") /\ ExecQuery(execLteRangeQuery(filter.steps[m.ip], m.rec))

ExecAnd ==
    /\ AtStep("rpnAnd")
    /\ m' = execAnd(m)
    /\ UNCHANGED <<l, collected, p, ret, filter, jsonCall, renderer, fnCall>>

ExecOr ==
    /\ AtStep("rpnOr")
    /\ m' = execOr(m)
    /\ UNCHANGED <<l, collected, p, ret, filter, jsonCall, renderer, fnCall>>

ExecNot ==
    /\ AtStep("rpnNot")
    /\ m' = execNot(m)
    /\ UNCHANGED <<l, collected, p, ret, filter, jsonCall, renderer, fnCall>>

MatchEnd ==
    /\ m.pc = "exec"
    /\ m.ip > Len(filter.steps)
    /\ m' = MatchLeave(m)
    /\ UNCHANGED <<l, collected, p, ret, filter, jsonCall, renderer, fnCall>>

\* ------------------------------------------------------------------------
\* Specification Spec: NewFilter on boolean combinations of two queries,
\* then Match of the compiled Filter on a record.
\* ------------------------------------------------------------------------
MaxPieces == 5
MaxCalls == 1

QueryA == <<"a", ":", "x">>
QueryB == <<"b", ">", "1">>
WordAnd == <<"a", "n", "d">>
WordOr == <<"o", "r">>
WordNot == <<"n", "o", "t">>

BoolPieces == {QueryA, QueryB, WordAnd, WordOr, WordNot, <<"(">>, <<")">>}

\* The pieces separated by single spaces.
RECURSIVE JoinSpace(_)
JoinSpace(ps) ==
    IF ps = <<>> THEN <<>>
    ELSE IF Len(ps) = 1 THEN ps[1]
    ELSE ps[1] \o <<" ">> \o JoinSpace(Tail(ps))

BoolKqls == {JoinSpace(ps) : ps \in SeqsUpTo(BoolPieces, MaxPieces)}

\* Records giving every truth assignment to the two queries.
BoolRecs ==
    {JObj(<<>>),
     JObj(<<KV(<<"a">>, JStr(<<"x">>))>>),
     JObj(<<KV(<<"b">>, JNum(2, 0))>>),
     JObj(<<KV(<<"a">>, JStr(<<"x">>)), KV(<<"b">>, JNum(2, 0))>>)}

Init ==
    /\ l = IdleLexer
    /\ collected = <<>>
    /\ \E kql \in BoolKqls : p = newParser(kql, "nil")
    /\ ret = NotReturned
    /\ filter = IdleFilter
    /\ m = IdleMatchState
    /\ jsonCall = IdleJson
    /\ renderer = IdleRenderer
    /\ fnCall = IdleCall

Next ==
    \/ LexerRun
    \/ ParseBeforeQuery
    \/ ParseRangeQuery
    \/ ParseTermsQuery
    \/ ParseAfterQuery
    \/ ParseEOFTok
    \/ ParseErrorTok
    \/ NewFilterReturn
    \/ MatchBegin(BoolRecs, MaxCalls)
    \/ ExecTermsQuery
    \/ ExecGtRangeQuery
    \/ ExecAnd
    \/ ExecOr
    \/ ExecNot
    \/ MatchEnd

Spec == Init /\ [][Next]_vars

\* ------------------------------------------------------------------------
\* Specification SpecQuery: NewFilter on one query of every form, with and
\* without a log level comparator, then Match calls of the compiled Filter
\* on records of every JSON kind.
\* ------------------------------------------------------------------------
MaxTerms == 2
MaxQueryCalls == 2

TermX == <<"x">>
TermNull == <<"n", "u", "l", "l">>
TermTrue == <<"t", "r", "u", "e">>
TermFalse == <<"f", "a", "l", "s", "e">>
TermOnePointZero == <<"1", ".", "0">>
TermStar == <<"*">>

QueryTerms ==
    {TermX, TermNull, TermTrue, TermFalse, TermOnePointZero, TermStar, LevelInfo}

QueryTermLists == SeqsUpTo(QueryTerms, MaxTerms) \ {<<>>}

QueryFields == {<<"a">>, <<"a", ".", "b">>, LogLevelField}

RangeOpTexts == {<<">">>, <<">", "=">>, <<"<">>, <<"<", "=">>}

\* The terms separated by the word w.
RECURSIVE JoinWord(_, _)
JoinWord(ts, w) ==
    IF Len(ts) = 1 THEN ts[1]
    ELSE ts[1] \o <<" ">> \o w \o <<" ">> \o JoinWord(Tail(ts), w)

RangeKqls ==
    {f \o <<" ">> \o op \o <<" ">> \o t :
         f \in QueryFields, op \in RangeOpTexts, t \in QueryTerms}

QueryKqls ==
    {f \o <<":">> \o JoinSpace(ts) : f \in QueryFields, ts \in QueryTermLists}
    \cup {f \o <<":", "(">> \o JoinWord(ts, w) \o <<")">> :
              f \in QueryFields, ts \in QueryTermLists, w \in {WordAnd, WordOr}}
    \cup RangeKqls
    \cup {JoinSpace(ts) : ts \in QueryTermLists}

\* The calls of NewFilter: every query without a comparator, and the range
\* queries, which alone hold the comparator, with one.
QueryInputs ==
    (QueryKqls \X {"nil"}) \cup (RangeKqls \X {"limitedLogLevelLess"})

QueryVals ==
    {JNull, JTrue, JFalse, JStr(TermX), JStr(LevelInfo), JStr(LevelDebug),
     JStr(LevelError), JNum(1, 0), JNum(15, 1),
     JArr(<<JStr(TermX), JNum(1, 0)>>), JArr(<<JNull, JTrue>>),
     JObj(<<KV(<<"b">>, JStr(TermX))>>)}

QueryRecs ==
    {JObj(<<>>)}
    \cup {JObj(<<KV(<<"a">>, v)>>) : v \in QueryVals}
    \cup {JObj(<<KV(<<"a">>, JObj(<<KV(<<"b">>, v)>>))>>) :
              v \in {JNull, JStr(TermX), JNum(1, 0)}}
    \cup {JObj(<<KV(<<"l", "o", "g">>, JObj(<<KV(<<"l", "e", "v", "e", "l">>, v)>>))>>) :
              v \in {JStr(LevelInfo), JStr(LevelDebug), JStr(LevelError), JStr(TermX),
                     JNum(1, 0)}}
    \cup {JObj(<<KV(LogLevelField, JStr(LevelError))>>)}
    \cup {JObj(<<KV(MessageField, JStr(TermX))>>)}

InitQuery ==
    /\ l = IdleLexer
    /\ collected = <<>>
    /\ \E call \in QueryInputs : p = newParser(call[1], call[2])
    /\ ret = NotReturned
    /\ filter = IdleFilter
    /\ m = IdleMatchState
    /\ jsonCall = IdleJson
    /\ renderer = IdleRenderer
    /\ fnCall = IdleCall

NextQuery ==
    \/ LexerRun
    \/ ParseBeforeQuery
    \/ ParseRangeQuery
    \/ ParseTermsQuery
    \/ ParseAfterQuery
    \/ ParseEOFTok
    \/ NewFilterReturn
    \/ MatchBegin(QueryRecs, MaxQueryCalls)
    \/ ExecExistsQuery
    \/ ExecTermsQuery
    \/ ExecMatchAllTermsQuery
    \/ ExecDefaultFieldsTermsQuery
    \/ ExecGtRangeQuery
    \/ ExecGteRangeQuery
    \/ ExecLtRangeQuery
    \/ ExecLteRangeQuery
    \/ MatchEnd

SpecQuery == InitQuery /\ [][NextQuery]_vars

\* ------------------------------------------------------------------------
\* Specification SpecJson: one call of LookupValue, ExtractValue or
\* ExtractValueOfType on an object and a path.
\* ------------------------------------------------------------------------
MaxPath == 3

KeyA == <<"a">>
KeyB == <<"b">>
KeyAB == <<"a", ".", "b">>

JsonPaths == SeqsUpTo({KeyA, KeyB}, MaxPath)

JsonLeaves == {JNull, JStr(TermX), JNum(1, 0), JObj(<<>>)}

\* The ways of cutting a path into consecutive chunks, each chunk the
\* dotted key of its names.
RECURSIVE Chunkings(_)
Chunkings(path) ==
    IF path = <<>> THEN {<<>>}
    ELSE UNION {{<<Join(SubSeq(path, 1, i))>> \o rest :
                     rest \in Chunkings(SubSeq(path, i + 1, Len(path)))} :
                i \in 1..Len(path)}

\* The object that nests along the chunk keys with X at the leaf.
RECURSIVE NestAlong(_, _)
NestAlong(chunks, X) ==
    IF chunks = <<>> THEN X
    ELSE JObj(<<KV(chunks[1], NestAlong(Tail(chunks), X))>>)

\* The same with a member `z` beside the one of the chain at level d.
RECURSIVE NestAlongBeside(_, _, _)
NestAlongBeside(chunks, X, d) ==
    IF chunks = <<>> THEN X
    ELSE JObj(<<KV(chunks[1], NestAlongBeside(Tail(chunks), X, d - 1))>>
              \o (IF d = 1 THEN <<KV(<<"z">>, JTrue)>> ELSE <<>>))

NestedCallsOf(path) ==
    {<<NestAlong(c, X), path>> : c \in Chunkings(path), X \in JsonLeaves}
    \cup {<<NestAlongBeside(c, X, d), path>> :
              c \in Chunkings(path), X \in JsonLeaves, d \in 1..MaxPath}

NestedCalls == UNION {NestedCallsOf(path) : path \in JsonPaths \ {<<>>}}

\* Objects of one or two members whose values are scalars or objects, so
\* that a path can be held nested and dotted at once.
InnerVals ==
    JsonLeaves
    \cup {JObj(<<KV(k, v)>>) : k \in {KeyA, KeyB}, v \in {JNull, JStr(TermX), JNum(1, 0)}}
    \cup {JObj(<<KV(KeyB, JStr(TermX)), KV(KeyA, JNum(1, 0))>>)}

OuterKeys == {KeyA, KeyB, KeyAB}

OuterObjs ==
    {JObj(<<KV(k, v)>>) : k \in OuterKeys, v \in InnerVals}
    \cup {JObj(<<KV(ks[1], v1), KV(ks[2], v2)>>) :
              ks \in {kk \in OuterKeys \X OuterKeys : kk[1] # kk[2]},
              v1 \in InnerVals, v2 \in InnerVals}

JsonShortPaths == {q \in JsonPaths : Len(q) <= 2}

JsonCalls ==
    NestedCalls
    \cup (OuterObjs \X JsonShortPaths)
    \cup (({Nil} \cup JsonLeaves \cup {JArr(<<JStr(TermX)>>)}) \X JsonPaths)

JsonTypes == {"TypeString", "TypeNumber", "TypeObject"}

JsonArgs(obj, lookup) ==
    [pc |-> "args", fn |-> "none", obj |-> obj, lookup |-> lookup, typ |-> "none",
     val |-> Nil, after |-> obj]

InitJson ==
    /\ l = IdleLexer
    /\ collected = <<>>
    /\ p = IdleParser
    /\ ret = NotReturned
    /\ filter = IdleFilter
    /\ m = IdleMatchState
    /\ \E call \in JsonCalls : jsonCall = JsonArgs(call[1], call[2])
    /\ renderer = IdleRenderer
    /\ fnCall = IdleCall

JsonReturn(fn, typ, val, after) ==
    /\ jsonCall.pc = "args"
    /\ jsonCall' = [jsonCall EXCEPT !.pc = "returned", !.fn = fn, !.typ = typ,
                                    !.val = val, !.after = after]
    /\ UNCHANGED <<l, collected, p, ret, filter, m, renderer, fnCall>>

CallLookupValue ==
    JsonReturn("LookupValue", "none",
               LookupValue(jsonCall.obj, jsonCall.lookup), jsonCall.obj)

CallExtractValue ==
    JsonReturn("ExtractValue", "none",
               ExtractValue(jsonCall.obj, jsonCall.lookup).val,
               ExtractValue(jsonCall.obj, jsonCall.lookup).obj)

CallExtractValueOfType ==
    \E typ \in JsonTypes :
        JsonReturn("ExtractValueOfType", typ,
                   ExtractValueOfType(jsonCall.obj, jsonCall.lookup, typ).val,
                   ExtractValueOfType(jsonCall.obj, jsonCall.lookup, typ).obj)

NextJson ==
    \/ CallLookupValue
    \/ CallExtractValue
    \/ CallExtractValueOfType

SpecJson == InitJson /\ [][NextJson]_vars

\* ------------------------------------------------------------------------
\* The boolean expression a query denotes, read from its tokens with
\* precedence not > and > or and parentheses grouping:
\*     or-expr  ::= and-expr ("or" and-expr)*
\*     and-expr ::= not-expr ("and" not-expr)*
\*     not-expr ::= "not" not-expr | "(" or-expr ")" | atom
\* Each Ref* gives [v, i]: the value of the expression that starts at token
\* i, and the index of the token after it.
\* ------------------------------------------------------------------------
RefResult(v, i) == [v |-> v, i |-> i]

\* The value of the atom `field:term` or `field > term` on record rec.
RefAtom(field, op, val, rec) ==
    IF op.typ = "tokTypeColon"
    THEN execTermsQuery(rpnTermsQuery(field.val, <<newTerm(val.val)>>), rec).push
    ELSE execGtRangeQuery(
             rpnRangeQuery("rpnGtRangeQuery", field.val, newTerm(val.val), "nil"),
             rec).push

RefNegate(r) == RefResult(~r.v, r.i)

RefCloseParen(r) == RefResult(r.v, r.i + 1)

RefConj(left, right) == RefResult(left.v /\ right.v, right.i)

RefDisj(left, right) == RefResult(left.v \/ right.v, right.i)

RECURSIVE RefOr(_, _, _)
RECURSIVE RefOrRest(_, _, _)
RECURSIVE RefAnd(_, _, _)
RECURSIVE RefAndRest(_, _, _)
RECURSIVE RefNot(_, _, _)
RefNot(toks, i, rec) ==
    CASE toks[i].typ = "tokTypeNot" -> RefNegate(RefNot(toks, i + 1, rec))
      [] toks[i].typ = "tokTypeOpenParen" -> RefCloseParen(RefOr(toks, i + 1, rec))
      [] OTHER -> RefResult(RefAtom(toks[i], toks[i + 1], toks[i + 2], rec), i + 3)

RefAndRest(toks, left, rec) ==
    IF toks[left.i].typ = "tokTypeAnd"
    THEN RefAndRest(toks, RefConj(left, RefNot(toks, left.i + 1, rec)), rec)
    ELSE left

RefAnd(toks, i, rec) == RefAndRest(toks, RefNot(toks, i, rec), rec)

RefOrRest(toks, left, rec) ==
    IF toks[left.i].typ = "tokTypeOr"
    THEN RefOrRest(toks, RefDisj(left, RefAnd(toks, left.i + 1, rec)), rec)
    ELSE left

RefOr(toks, i, rec) == RefOrRest(toks, RefAnd(toks, i, rec), rec)

RefEval(toks, rec) == RefOr(toks, 1, rec).v

\* ------------------------------------------------------------------------
\* Properties.
\* ------------------------------------------------------------------------
\* Match has executed its last step and is about to return.
MatchAtEnd == m.pc = "exec" /\ m.ip > Len(filter.steps)

\* C1: on a Filter that NewFilter returned, Match never pops the empty bool
\* stack, and after the last step the stack holds exactly one element.
C1_MatchStackSafe == m.pc \notin {"panic", "fatal"}

\* C2: the result of Match on a compiled query is the value of the boolean
\* expression the query's tokens denote with precedence not > and > or and
\* parentheses grouping, for every truth assignment to its atoms.
C2_MatchIsBooleanExpression ==
    (MatchAtEnd /\ Len(m.stack) = 1) => m.stack[1] = RefEval(p.received, m.rec)

ReceivedError == \E i \in 1..Len(p.received) : p.received[i].typ = "tokTypeError"

\* C3: NewFilter returns either a Filter and no error or an error and no
\* Filter; an error of the lexer or of the parser leaves no Filter, whatever
\* steps were emitted; and a returned Filter is the parser's after it took
\* every token up to and including EOF.
C3_AllOrNothing ==
    ret.returned =>
        /\ (ret.f = "filter") = (ret.err = NoErr)
        /\ ret.f \in {"filter", "nil"}
        /\ (p.err # NoErr \/ ReceivedError) => (ret.f = "nil" /\ filter = IdleFilter)
        /\ ret.f = "filter" =>
               /\ m.calls = 0 => filter = p.filter
               /\ p.received # <<>>
               /\ Last(p.received).typ = "tokTypeEOF"
               /\ p.lookAheadTok = NoTok
               /\ p.lex.pos = Len(p.kql)
               /\ \A i \in 1..(Len(p.received) - 1) :
                      p.received[i].typ \notin TerminalTypes

\* C3's case: an error after steps were emitted, and nothing returned.
C3_Witness ==
    /\ ret.returned /\ ret.f = "nil" /\ ret.err # NoErr
    /\ Len(p.filter.steps) > 0

\* The safety part of C4.
LexStreamWellFormed ==
    /\ \A i \in 1..(Len(collected) - 1) : collected[i].typ \notin TerminalTypes
    /\ CollectDone => l.pending = NoTok
    /\ l.closed => CollectDone

\* What is left of a lexer's run: three for each character not yet read,
\* the rank of the point the goroutine is at, and one for a token offered
\* and not yet taken.
LexRank(pc) ==
    CASE pc = "closed" -> 0
      [] pc = "returnNil" -> 1
      [] pc = "lexUnquotedLiteralOrBoolOp" -> 3
      [] pc = "lexInsideKQL" -> 4
      [] OTHER -> 5

LexMeasure(lx) ==
    3 * (Len(lx.input) - lx.pos) + LexRank(lx.pc)
        + (IF lx.pending # NoTok THEN 1 ELSE 0)

\* The goroutine can run, or the collecting loop can take a token.
LexStepPossible == LexCanRun(l) \/ (~CollectDone /\ l.pending # NoTok)

\* C4: the tokens of any input are finitely many, with exactly one terminal
\* token (EOF or Error), which is the last, and nothing is offered after
\* it: no terminal token is followed by another token, every step of the
\* lexer and of the collecting loop uses up some of what is left of the
\* run, and a step is possible until the terminal token is collected and
\* the channel is closed.
C4_OneTerminalTokenLast ==
    /\ [](LexStreamWellFormed)
    /\ [](Len(collected) <= Len(l.input) + 1)
    /\ [][l.pc # "idle" => (LexMeasure(l') < LexMeasure(l) /\ LexMeasure(l') >= 0)]_vars
    /\ [](l.pc # "idle" => (l.closed /\ CollectDone) \/ LexStepPossible)

\* C4's case: a stream of several tokens ended by its terminal token, the
\* channel closed.
C4_Witness ==
    /\ l.closed /\ CollectDone /\ Len(collected) >= 3
    /\ Last(collected).typ = "tokTypeError"

\* C5: once NewFilter has returned, the lexer goroutine is not left blocked
\* in a send of a token that nothing will receive.
C5_LexerNotLeftBlocked == ret.returned => p.lex.pending = NoTok

\* ------------------------------------------------------------------------
\* Properties of the query steps, on a Filter of one step.
\* ------------------------------------------------------------------------
\* Match has executed the one step of the Filter, a step of kind op.
AtEndOf(op) == MatchAtEnd /\ Len(filter.steps) = 1 /\ filter.steps[1].op = op

TheStep == filter.steps[1]

TheFieldVal == LookupValue(m.rec, Split(TheStep.field))

\* The number cache of a term emptied.
ClearNumCache(t) == [t EXCEPT !.numParsed = FALSE, !.numOk = FALSE, !.numVal = NoNum]

StepClearNumCache(st) == [st EXCEPT !.term = ClearNumCache(@)]

\* The number cache of term t holds what its string parses to.
NumCacheOfVal(t) ==
    /\ t.numParsed
    /\ t.numOk = ParseFloat(t.Val).ok
    /\ t.numVal = (IF ParseFloat(t.Val).ok THEN ParseFloat(t.Val).v ELSE NoNum)

\* C6 as stated: Match calls leave the Filter, its steps and their terms as
\* NewFilter returned them (p.filter keeps what parse() returned).
C6_MatchNeverWritesFilter == ret.f = "filter" => filter = p.filter

\* C6 amended: of the Filter, Match calls write only the number cache of
\* the term of a range step, with what the term's string parses to; the
\* steps, their fields, the terms' strings and wildcards, and every term
\* of a terms query stay as NewFilter returned them.
C6_OnlyRangeNumCacheWritten ==
    ret.f = "filter" =>
        /\ Len(filter.steps) = Len(p.filter.steps)
        /\ \A i \in 1..Len(filter.steps) :
               /\ StepClearNumCache(filter.steps[i]) = p.filter.steps[i]
               /\ filter.steps[i] # p.filter.steps[i] =>
                      /\ filter.steps[i].op \in RangeOps
                      /\ NumCacheOfVal(filter.steps[i].term)

\* C6's case: a second Match call on a Filter whose range step holds the
\* number cached by the first, and a second call on a terms query that
\* compared its terms to a number and cached nothing.
C6_Witness ==
    /\ m.calls = 2 /\ MatchAtEnd /\ Len(filter.steps) = 1
    /\ TheFieldVal.typ = "TypeNumber"
    /\ \/ TheStep.op \in RangeOps /\ TheStep.term.numParsed /\ TheStep.term.numOk
       \/ TheStep.op = "rpnTermsQuery" /\ m.stack = <<TRUE>>

\* Term t matches value v by the JSON kind of v.
KindMatch(t, v) ==
    CASE v.typ = "TypeNull" -> t.Val = TermNull
      [] v.typ = "TypeString" -> MatchStringBytes(t, v.s)
      [] v.typ = "TypeNumber" -> ParseFloat(t.Val).ok /\ ParseFloat(t.Val).v = v.n
      [] v.typ = "TypeTrue" -> t.Val = TermTrue
      [] v.typ = "TypeFalse" -> t.Val = TermFalse
      [] OTHER -> FALSE

\* C7: a TermsQuery pushes true iff the field resolves and some term
\* matches the value by the value's JSON kind; false for an absent field
\* and for every object or array value.
C7_TermsQueryByKind ==
    AtEndOf("rpnTermsQuery") =>
        m.stack = << /\ TheFieldVal # Nil
                     /\ TheFieldVal.typ \notin {"TypeObject", "TypeArray"}
                     /\ \E i \in 1..Len(TheStep.terms) :
                            KindMatch(TheStep.terms[i], TheFieldVal) >>

\* C7's case: the second of two terms, `1.0`, equals the number 1 of the
\* record, and an array holding a term's value is not matched.
C7_Witness ==
    /\ AtEndOf("rpnTermsQuery")
    /\ \/ /\ TheFieldVal = JNum(1, 0) /\ Len(TheStep.terms) = 2
          /\ TheStep.terms[1].Val = TermTrue /\ TheStep.terms[2].Val = TermOnePointZero
          /\ m.stack = <<TRUE>>
       \/ /\ TheFieldVal.typ = "TypeArray" /\ TheStep.terms[1].Val = TermX
          /\ m.stack = <<FALSE>>

\* C8: a MatchAllTermsQuery pushes true iff the field resolves to an array
\* and every term matches some element of it by the element's JSON kind;
\* false for an absent field and for every value that is no array.
C8_MatchAllTermsQuery ==
    AtEndOf("rpnMatchAllTermsQuery") =>
        m.stack = << /\ TheFieldVal # Nil
                     /\ TheFieldVal.typ = "TypeArray"
                     /\ \A i \in 1..Len(TheStep.terms) :
                            \E j \in 1..Len(TheFieldVal.a) :
                                KindMatch(TheStep.terms[i], TheFieldVal.a[j]) >>

\* C8's case: both terms are in the array; and one of two is not.
C8_Witness ==
    /\ AtEndOf("rpnMatchAllTermsQuery")
    /\ TheFieldVal.typ = "TypeArray" /\ Len(TheStep.terms) = 2
    /\ TheStep.terms[1].Val = TermX
    /\ \/ TheStep.terms[2].Val = TermOnePointZero /\ m.stack = <<TRUE>>
       \/ TheStep.terms[2].Val = TermNull /\ m.stack = <<FALSE>>

\* The query is `field:t1 t2 ...`: a literal, a colon, literals, the end.
PlainTermsInput ==
    /\ Len(p.received) >= 4
    /\ p.received[1].typ = "tokTypeUnquotedLiteral"
    /\ p.received[2].typ = "tokTypeColon"
    /\ \A i \in 3..(Len(p.received) - 1) : p.received[i].typ = "tokTypeUnquotedLiteral"
    /\ Last(p.received).typ = "tokTypeEOF"

PlainTermsHasStar ==
    \E i \in 3..(Len(p.received) - 1) : p.received[i].val = TermStar

\* C9: `field:t1 t2 ...` compiles to ExistsQuery{field} if any term is
\* exactly `*`, and otherwise to TermsQuery{field, terms} with the terms in
\* source order; an ExistsQuery pushes true iff the field path resolves.
C9_PlainTermsAndExists ==
    /\ (ret.returned /\ PlainTermsInput) =>
           /\ ret.f = "filter"
           /\ p.filter.steps =
                  << IF PlainTermsHasStar
                     THEN rpnExistsQuery(p.received[1].val)
                     ELSE rpnTermsQuery(
                              p.received[1].val,
                              [i \in 1..(Len(p.received) - 3) |->
                                   newTerm(p.received[i + 2].val)]) >>
    /\ AtEndOf("rpnExistsQuery") => m.stack = <<TheFieldVal # Nil>>

\* C9's case: `*` is the second term, the compiled step is the exists
\* query, and it pushed true for a field whose value is null.
C9_Witness ==
    /\ PlainTermsInput /\ Len(p.received) = 5
    /\ p.received[3].val = TermX /\ p.received[4].val = TermStar
    /\ AtEndOf("rpnExistsQuery")
    /\ TheFieldVal = JNull /\ m.stack = <<TRUE>>

\* The comparisons of a range query without the log.level case.
RangeOrdinary(op, t, v) ==
    CASE v.typ = "TypeString" ->
           (CASE op = "rpnGtRangeQuery" -> StrLess(t.Val, v.s)
              [] op = "rpnGteRangeQuery" -> ~StrLess(v.s, t.Val)
              [] op = "rpnLtRangeQuery" -> StrLess(v.s, t.Val)
              [] op = "rpnLteRangeQuery" -> ~StrLess(t.Val, v.s))
      [] v.typ = "TypeNumber" ->
           /\ ParseFloat(t.Val).ok
           /\ (CASE op = "rpnGtRangeQuery" -> NumLess(ParseFloat(t.Val).v, v.n)
                 [] op = "rpnGteRangeQuery" -> ~NumLess(v.n, ParseFloat(t.Val).v)
                 [] op = "rpnLtRangeQuery" -> NumLess(v.n, ParseFloat(t.Val).v)
                 [] op = "rpnLteRangeQuery" -> ~NumLess(ParseFloat(t.Val).v, v.n))
      [] OTHER -> FALSE

\* The one call of the comparator in the log.level case, and what is pushed.
RangeLessArgs(op, t, v) ==
    IF op \in {"rpnGtRangeQuery", "rpnLteRangeQuery"} THEN <<t.Val, v.s>> ELSE <<v.s, t.Val>>

RangeLessPush(op, less, t, v) ==
    CASE op = "rpnGtRangeQuery" -> CallLess(less, t.Val, v.s)
      [] op = "rpnGteRangeQuery" -> ~CallLess(less, v.s, t.Val)
      [] op = "rpnLtRangeQuery" -> CallLess(less, v.s, t.Val)
      [] op = "rpnLteRangeQuery" -> ~CallLess(less, t.Val, v.s)

LogLevelCase ==
    /\ TheStep.logLevelLess # "nil"
    /\ TheStep.field = LogLevelField
    /\ TheFieldVal.typ = "TypeString"

\* C10: with a comparator, a range query on log.level with a string value
\* pushes less(t, v) for `>`, not less(v, t) for `>=`, less(v, t) for `<`
\* and not less(t, v) for `<=`; without a comparator, on another field or
\* on a value that is no string, the comparator is not called and the
\* ordinary string or number comparison is pushed.
C10_LogLevelRange ==
    (MatchAtEnd /\ Len(filter.steps) = 1 /\ TheStep.op \in RangeOps) =>
        IF LogLevelCase
        THEN /\ m.lessCalls = <<RangeLessArgs(TheStep.op, TheStep.term, TheFieldVal)>>
             /\ m.stack = <<RangeLessPush(TheStep.op, TheStep.logLevelLess,
                                          TheStep.term, TheFieldVal)>>
        ELSE /\ m.lessCalls = <<>>
             /\ m.stack = <<RangeOrdinary(TheStep.op, TheStep.term, TheFieldVal)>>

\* C10's case: `log.level > info` on the level `error` pushes true with the
\* comparator, where the order of the strings would give false.
C10_Witness ==
    /\ AtEndOf("rpnGtRangeQuery") /\ LogLevelCase
    /\ TheStep.term.Val = LevelInfo /\ TheFieldVal = JStr(LevelError)
    /\ m.stack = <<TRUE>>
    /\ ~RangeOrdinary(TheStep.op, TheStep.term, TheFieldVal)

\* The string and number comparisons of the four range operators, value
\* on the left and term on the right.
RangeStrCmp(op, vs, ts) ==
    CASE op = "rpnGtRangeQuery" -> StrLess(ts, vs)
      [] op = "rpnGteRangeQuery" -> vs = ts \/ StrLess(ts, vs)
      [] op = "rpnLtRangeQuery" -> StrLess(vs, ts)
      [] op = "rpnLteRangeQuery" -> vs = ts \/ StrLess(vs, ts)

RangeNumCmp(op, vn, tn) ==
    CASE op = "rpnGtRangeQuery" -> NumLess(tn, vn)
      [] op = "rpnGteRangeQuery" -> vn = tn \/ NumLess(tn, vn)
      [] op = "rpnLtRangeQuery" -> NumLess(vn, tn)
      [] op = "rpnLteRangeQuery" -> vn = tn \/ NumLess(vn, tn)

AtEndOfRange == MatchAtEnd /\ Len(filter.steps) = 1 /\ TheStep.op \in RangeOps

\* C11: outside the log.level case a range step pushes false for an absent
\* field, the byte order comparison of the value with the term's string for
\* a string value, the numeric comparison for a number value when the term
\* parses as a number and false when it does not, and false for a null,
\* object, array or boolean value.
C11_RangeByKind ==
    (AtEndOfRange /\ ~LogLevelCase) =>
        m.stack =
            << CASE TheFieldVal = Nil -> FALSE
                 [] TheFieldVal.typ = "TypeString" ->
                      RangeStrCmp(TheStep.op, TheFieldVal.s, TheStep.term.Val)
                 [] TheFieldVal.typ = "TypeNumber" ->
                      /\ ParseFloat(TheStep.term.Val).ok
                      /\ RangeNumCmp(TheStep.op, TheFieldVal.n,
                                     ParseFloat(TheStep.term.Val).v)
                 [] OTHER -> FALSE >>

\* C11's case: `a >= x` on the number 1 pushes false, and on the string
\* "x" pushes true; `a <= 1.0` on the number 1 pushes true.
C11_Witness ==
    /\ AtEndOfRange /\ ~LogLevelCase
    /\ \/ /\ TheStep.op = "rpnGteRangeQuery" /\ TheStep.term.Val = TermX
          /\ TheFieldVal = JNum(1, 0) /\ m.stack = <<FALSE>>
       \/ /\ TheStep.op = "rpnGteRangeQuery" /\ TheStep.term.Val = TermX
          /\ TheFieldVal = JStr(TermX) /\ m.stack = <<TRUE>>
       \/ /\ TheStep.op = "rpnLteRangeQuery" /\ TheStep.term.Val = TermOnePointZero
          /\ TheFieldVal = JNum(1, 0) /\ m.stack = <<TRUE>>

\* The terms query on `message` with the terms of a default fields query.
MessageTermsQuery(q) ==
    rpnTermsQuery(MessageField, [i \in 1..Len(q.rawTerms) |-> newTerm(q.rawTerms[i])])

\* The query is `t1 t2 ...`: literals and the end.
NoFieldInput ==
    /\ Len(p.received) >= 2
    /\ \A i \in 1..(Len(p.received) - 1) : p.received[i].typ = "tokTypeUnquotedLiteral"
    /\ Last(p.received).typ = "tokTypeEOF"

\* C12: a query without a field name compiles to one
\* DefaultFieldsTermsQuery holding the terms, and for every record that
\* step pushes what the TermsQuery on `message` with the same terms pushes.
C12_DefaultFieldsIsMessage ==
    /\ (ret.returned /\ NoFieldInput) =>
           /\ ret.f = "filter"
           /\ p.filter.steps =
                  << rpnDefaultFieldsTermsQuery(
                         [i \in 1..(Len(p.received) - 1) |-> p.received[i].val]) >>
    /\ AtEndOf("rpnDefaultFieldsTermsQuery") =>
           m.stack = <<execTermsQuery(MessageTermsQuery(TheStep), m.rec).push>>

\* ------------------------------------------------------------------------
\* Properties of the jsonutils functions.
\* ------------------------------------------------------------------------
Returned(fn) == jsonCall.pc = "returned" /\ jsonCall.fn = fn

\* The value at the end of a chain of keys, or Nil.
RECURSIVE Reach(_, _)
Reach(obj, chunks) ==
    IF chunks = <<>> THEN obj
    ELSE IF obj = Nil \/ obj.typ # "TypeObject" THEN Nil
    ELSE Reach(ObjGet(obj, chunks[1]), Tail(chunks))

HasChain(obj, path) == \E c \in Chunkings(path) : Reach(obj, c) # Nil

\* C13: for every path of one name or more and every cutting of it into
\* dotted chunks, LookupValue on the object that nests along the chunk
\* keys with X at the leaf returns X; and it returns nil when the object is
\* nil, is no JSON object, or holds no chain of keys for the path.
C13_LookupNestedOrDotted ==
    (Returned("LookupValue") /\ jsonCall.lookup # <<>>) =>
        /\ \A c \in Chunkings(jsonCall.lookup) : \A X \in JsonLeaves :
               jsonCall.obj = NestAlong(c, X) => jsonCall.val = X
        /\ (\/ jsonCall.obj = Nil
            \/ jsonCall.obj.typ # "TypeObject"
            \/ ~HasChain(jsonCall.obj, jsonCall.lookup)) => jsonCall.val = Nil

\* C13's case: the path a, b, a held as {"a.b": {"a": "x"}}; and the path
\* a, b on an object that holds only b.
C13_Witness ==
    /\ Returned("LookupValue")
    /\ \/ /\ jsonCall.lookup = <<KeyA, KeyB, KeyA>>
          /\ jsonCall.obj = JObj(<<KV(KeyAB, JObj(<<KV(KeyA, JStr(TermX))>>))>>)
          /\ jsonCall.val = JStr(TermX)
       \/ /\ jsonCall.lookup = <<KeyA, KeyB>>
          /\ jsonCall.obj = JObj(<<KV(KeyB, JNum(1, 0))>>)
          /\ jsonCall.val = Nil

\* The object without the member at the end of a chain of keys, and
\* without every object of the chain which that leaves empty.
RECURSIVE Removed(_, _)
Removed(obj, chunks) ==
    IF Len(chunks) = 1 THEN ObjDel(obj, chunks[1])
    ELSE IF Removed(ObjGet(obj, chunks[1]), Tail(chunks)).o = <<>>
    THEN ObjDel(obj, chunks[1])
    ELSE ObjSet(obj, chunks[1], Removed(ObjGet(obj, chunks[1]), Tail(chunks)))

\* C14: when ExtractValue finds a value, the object afterwards is the
\* object before without the member that held the value and without every
\* enclosing object of the matched chain that the removal emptied, all
\* other members unchanged; and the root is still an object.
C14_ExtractRemovesAndPrunes ==
    (Returned("ExtractValue") /\ jsonCall.lookup # <<>> /\ jsonCall.val # Nil) =>
        /\ jsonCall.after.typ = "TypeObject"
        /\ \E c \in Chunkings(jsonCall.lookup) :
               /\ Reach(jsonCall.obj, c) = jsonCall.val
               /\ jsonCall.after = Removed(jsonCall.obj, c)

\* C14's case: the value leaves two nested objects empty, which go, and
\* the root keeps its other member; and an inner object keeps its other
\* member and stays.
C14_Witness ==
    /\ Returned("ExtractValue") /\ jsonCall.val = JStr(TermX)
    /\ \/ /\ jsonCall.obj = NestAlongBeside(<<KeyA, KeyB, KeyA>>, JStr(TermX), 1)
          /\ jsonCall.after = JObj(<<KV(<<"z">>, JTrue)>>)
       \/ /\ jsonCall.obj = NestAlongBeside(<<KeyA, KeyB>>, JStr(TermX), 2)
          /\ jsonCall.after = JObj(<<KV(KeyA, JObj(<<KV(<<"z">>, JTrue)>>))>>)

\* The path held nested with a number and dotted with a string.
NestedNumberDottedString ==
    JObj(<<KV(KeyA, JObj(<<KV(KeyB, JNum(1, 0))>>)), KV(KeyAB, JStr(TermX))>>)

\* C15: if the value LookupValue resolves for the path is not of the
\* required type, ExtractValueOfType returns nil and leaves the object
\* unchanged, also when the object holds the path nested and dotted with
\* values of different types.
C15_TypeFilteredExtract ==
    (/\ Returned("ExtractValueOfType")
     /\ \/ LookupValue(jsonCall.obj, jsonCall.lookup) = Nil
        \/ LookupValue(jsonCall.obj, jsonCall.lookup).typ # jsonCall.typ) =>
        jsonCall.val = Nil /\ jsonCall.after = jsonCall.obj

\* Some chain of keys for the path ends at a value of the type.
HasChainOfType(obj, path, typ) ==
    \E c \in Chunkings(path) : Reach(obj, c) # Nil /\ Reach(obj, c).typ = typ

\* C15 as amended: ExtractValueOfType returns nil and leaves the object
\* unchanged iff no chain of keys for the path, nested or dotted, ends at a
\* value of the required type; otherwise it returns such a value, which
\* need not be the one LookupValue resolves, and removes it.
C15_ExtractFirstOfType ==
    (Returned("ExtractValueOfType") /\ jsonCall.lookup # <<>>) =>
        IF HasChainOfType(jsonCall.obj, jsonCall.lookup, jsonCall.typ)
        THEN /\ jsonCall.val # Nil
             /\ jsonCall.val.typ = jsonCall.typ
             /\ \E c \in Chunkings(jsonCall.lookup) :
                    /\ Reach(jsonCall.obj, c) = jsonCall.val
                    /\ jsonCall.after = Removed(jsonCall.obj, c)
        ELSE jsonCall.val = Nil /\ jsonCall.after = jsonCall.obj

\* C15's case: the string is asked for where LookupValue resolves the
\* number: the dotted string is returned and removed.
C15_Witness ==
    /\ Returned("ExtractValueOfType")
    /\ jsonCall.obj = NestedNumberDottedString
    /\ jsonCall.lookup = <<KeyA, KeyB>> /\ jsonCall.typ = "TypeString"
    /\ LookupValue(jsonCall.obj, jsonCall.lookup) = JNum(1, 0)
    /\ jsonCall.val = JStr(TermX)
    /\ jsonCall.after = JObj(<<KV(KeyA, JObj(<<KV(KeyB, JNum(1, 0))>>))>>)

\* ------------------------------------------------------------------------
\* Specification SpecRender: a Renderer is made and configured, and
\* RenderFile runs on every input of at most MaxLines lines.
\* ------------------------------------------------------------------------
MaxLines == 2

TsVal == JStr(<<"t">>)
VersionVal == JStr(<<"1">>)
FooField == <<"f", "o", "o">>

RecInfo ==
    JObj(<<KV(LogLevelField, JStr(LevelInfo)), KV(TimestampField, TsVal),
           KV(<<"e", "c", "s">>, JObj(<<KV(<<"v", "e", "r", "s", "i", "o", "n">>, VersionVal)>>)),
           KV(MessageField, JStr(TermX))>>)

RecDebug ==
    JObj(<<KV(TimestampField, TsVal),
           KV(<<"l", "o", "g">>, JObj(<<KV(<<"l", "e", "v", "e", "l">>, JStr(ToUpper(LevelDebug))),
                              KV(<<"l", "o", "g", "g", "e", "r">>, JStr(<<"L">>))>>)),
           KV(<<"e", "c", "s", ".", "v", "e", "r", "s", "i", "o", "n">>, VersionVal), KV(MessageField, JStr(<<"y">>)),
           KV(FooField, JTrue)>>)

RecNoMessage ==
    JObj(<<KV(LogLevelField, JStr(LevelInfo)), KV(TimestampField, TsVal),
           KV(<<"e", "c", "s", ".", "v", "e", "r", "s", "i", "o", "n">>, VersionVal), KV(FooField, JTrue)>>)

RecMessageTrue ==
    JObj(<<KV(LogLevelField, JStr(LevelInfo)), KV(TimestampField, TsVal),
           KV(<<"e", "c", "s", ".", "v", "e", "r", "s", "i", "o", "n">>, VersionVal), KV(MessageField, JTrue)>>)

RecNotECS == JObj(<<KV(FooField, JTrue)>>)

LevelNotice == <<"n", "o", "t", "i", "c", "e">>

RecNotice ==
    JObj(<<KV(LogLevelField, JStr(LevelNotice)), KV(TimestampField, TsVal),
           KV(<<"e", "c", "s", ".", "v", "e", "r", "s", "i", "o", "n">>, VersionVal),
           KV(MessageField, JStr(TermX))>>)

RenderLines ==
    {JsonLine(RecInfo, 0), JsonLine(RecDebug, 0), JsonLine(RecNoMessage, 0),
     JsonLine(RecMessageTrue, 0), JsonLine(RecNotECS, 0), JsonLine(RecNotice, 0),
     TextLine(<<>>, 0), TextLine(<<"h", "i">>, 0), TextLine(<<"{", "b", "a", "d">>, 0),
     JsonLine(RecInfo, maxLineLen - EncodedLen(RecInfo)),
     JsonLine(RecInfo, maxLineLen + 1 - EncodedLen(RecInfo)),
     TextLine(<<"h", "i">>, MaxScanTokenSize - 1 - Len(<<"h", "i">>)),
     TextLine(<<"h", "i">>, MaxScanTokenSize - Len(<<"h", "i">>))}

RenderInputs == SeqsUpTo(RenderLines, MaxLines)
LevelFilters == {<<>>, LevelInfo, LevelNotice}
KQLFilters == {<<>>, <<"m", "e", "s", "s", "a", "g", "e", ":", "x">>, <<"l", "o", "g", ".", "l", "e", "v", "e", "l", ">", "d", "e", "b", "u", "g">>}

InitRender ==
    /\ l = IdleLexer
    /\ collected = <<>>
    /\ p = IdleParser
    /\ ret = NotReturned
    /\ filter = IdleFilter
    /\ m = IdleMatchState
    /\ jsonCall = IdleJson
    /\ renderer = IdleRenderer
    /\ fnCall = IdleCall

NewRenderer ==
    /\ renderer.pc = "idle"
    /\ \E strict \in BOOLEAN :
           renderer' = [renderer EXCEPT !.pc = "new", !.strict = strict]
    /\ UNCHANGED <<l, collected, p, ret, filter, m, jsonCall, fnCall>>

SetLevelFilter ==
    /\ renderer.pc = "new"
    /\ \E level \in LevelFilters :
           renderer' = IF level # <<>> THEN [renderer EXCEPT !.levelFilter = level]
                       ELSE renderer
    /\ UNCHANGED <<l, collected, p, ret, filter, m, jsonCall, fnCall>>

SetKQLFilter ==
    /\ renderer.pc = "new"
    /\ \E kql \in KQLFilters :
           renderer' = IF kql # <<>>
                       THEN [renderer EXCEPT !.kqlFilter = NewFilter(kql, "LogLevelLess").f]
                       ELSE renderer
    /\ UNCHANGED <<l, collected, p, ret, filter, m, jsonCall, fnCall>>

RenderFile ==
    /\ renderer.pc = "new"
    /\ \E in \in RenderInputs :
           renderer' = [renderer EXCEPT !.pc = "scan", !.input = in, !.in = in]
    /\ UNCHANGED <<l, collected, p, ret, filter, m, jsonCall, fnCall>>

\* scanner.Scan() gives the next line: it has one that fits its buffer.
ScanOk ==
    /\ renderer.pc = "scan"
    /\ renderer.in # <<>>
    /\ Head(renderer.in).len < MaxScanTokenSize

\* One iteration of the loop of RenderFile, on the line scanner.Scan() gave.
ScanLine ==
    /\ ScanOk
    /\ renderer' = renderLine(renderer, Head(renderer.in))
    /\ UNCHANGED <<l, collected, p, ret, filter, m, jsonCall, fnCall>>

\* scanner.Scan() is false at the end of the input, and RenderFile returns
\* scanner.Err(), which is nil.
ScanEOF ==
    /\ renderer.pc = "scan"
    /\ renderer.in = <<>>
    /\ renderer' = [renderer EXCEPT !.pc = "returned", !.err = "nil"]
    /\ UNCHANGED <<l, collected, p, ret, filter, m, jsonCall, fnCall>>

\* scanner.Scan() is false at a line that fills the scanner's buffer, and
\* RenderFile returns scanner.Err(), which is bufio.ErrTooLong.
ScanTooLong ==
    /\ renderer.pc = "scan"
    /\ renderer.in # <<>>
    /\ Head(renderer.in).len >= MaxScanTokenSize
    /\ renderer' = [renderer EXCEPT !.pc = "returned", !.err = "ErrTooLong"]
    /\ UNCHANGED <<l, collected, p, ret, filter, m, jsonCall, fnCall>>

NextRender ==
    \/ NewRenderer
    \/ SetLevelFilter
    \/ SetKQLFilter
    \/ RenderFile
    \/ ScanLine
    \/ ScanEOF
    \/ ScanTooLong

SpecRender == InitRender /\ [][NextRender]_vars

\* The lines RenderFile has been through, by number, and what it did.
Handled == DOMAIN renderer.log

\* The four fields of an ecs-logging record, as lookups.
CoreLookups == {<<TimestampField>>, <<MessageField>>, EcsLookup, LogLevelLookup}

C17_NeverHalts ==
    renderer.pc = "returned" =>
        /\ renderer.err = "nil"
        /\ renderer.in = <<>>
        /\ renderer.scanned = Len(renderer.input)

\* The text the formatter writes for the record of line n of the input.
TextOf(n) ==
    formatRecord(StringBytes(LookupValue(renderer.input[n].rec, LogLevelLookup)),
                 renderer.input[n].rec)

\* C18: what is written is in the order of the input: each output is the
\* bytes or the rendering of one line read, and a later output is for a
\* later line, so no line is written twice or out of turn.
C18_InputOrder ==
    /\ \A i, j \in DOMAIN renderer.out :
           i < j => renderer.out[i].src < renderer.out[j].src
    /\ \A i \in DOMAIN renderer.out :
           /\ renderer.out[i].src \in 1..renderer.scanned
           /\ renderer.out[i].kind = "line" =>
                  renderer.out[i] = OutLine(renderer.out[i].src,
                                            renderer.input[renderer.out[i].src])
           /\ renderer.out[i].kind = "text" =>
                  renderer.out[i] = OutText(renderer.out[i].src,
                                            TextOf(renderer.out[i].src))

\* C18's case: a rendered record and then a line passed through, written
\* in that order.
C18_Witness ==
    /\ Len(renderer.out) = 2
    /\ renderer.out[1].kind = "text" /\ renderer.out[1].src = 1
    /\ renderer.out[2].kind = "line" /\ renderer.out[2].src = 2

\* C19: a line that is empty, does not start with {, is too long, does not
\* parse or is no ecs-logging record is written as it is, a newline after
\* it, when strict mode is off, and nothing is written for it when strict
\* mode is on; it is given to no filter and to no formatter.
C19_PassThroughOrSuppress ==
    \A i \in Handled :
        renderer.log[i].path \in {"unparsed", "parseError", "notECS"} =>
            /\ ~renderer.log[i].levelChecked
            /\ renderer.log[i].matchRec = Nil
            /\ renderer.log[i].formatRec = Nil
            /\ IF renderer.strict
               THEN \A k \in DOMAIN renderer.out : renderer.out[k].src # i
               ELSE \E k \in DOMAIN renderer.out :
                        renderer.out[k] = OutLine(i, renderer.input[i])

\* An ecs-logging record by the strict check: @timestamp, ecs.version and
\* log.level are strings, message is absent or a string.
ValidMessageOptional(rec) ==
    /\ ~GetStringBytes(rec, TimestampField).nil
    /\ LookupValue(rec, EcsLookup).typ = "TypeString"
    /\ LookupValue(rec, LogLevelLookup).typ = "TypeString"
    /\ ObjGet(rec, MessageField).typ \in {"nil", "TypeString"}

\* C20: a parsed record is taken for an ecs-logging record, and so goes on
\* to the filters and the formatter, iff @timestamp, ecs.version and
\* log.level are strings and message is absent or a string.
C20_ValidityCheck ==
    \A i \in Handled :
        renderer.log[i].path \notin {"unparsed", "parseError"} =>
            (renderer.log[i].path # "notECS")
                = ValidMessageOptional(renderer.input[i].rec)

\* The rank of a level name in the level ordering, letter case ignored;
\* -1 for a name that has none.
LevelRank(level) == levelValFromName(ToLower(level))

\* The lines rendered while a level filter was set.
RenderedUnderLevel ==
    {i \in Handled : renderer.log[i].path = "rendered" /\ renderer.levelFilter # <<>>}

LevelOfLine(i) == StringBytes(LookupValue(renderer.input[i].rec, LogLevelLookup))

\* C21 as stated: under a level filter LEVEL every rendered record has a
\* log.level with a rank, and that rank is at least the rank of LEVEL.
C21_OnlyAtOrAboveLevel ==
    \A i \in RenderedUnderLevel :
        /\ LevelRank(LevelOfLine(i)) # -1
        /\ LevelRank(LevelOfLine(i)) >= LevelRank(renderer.levelFilter)

\* C21: under a level filter LEVEL every rendered record whose log.level
\* and LEVEL both have a rank is of a rank at least that of LEVEL, and a
\* record is dropped by the level filter only if both have a rank.
C21_OnlyAtOrAboveKnownLevel ==
    /\ \A i \in RenderedUnderLevel :
           LevelRank(LevelOfLine(i)) # -1 /\ LevelRank(renderer.levelFilter) # -1
               => LevelRank(LevelOfLine(i)) >= LevelRank(renderer.levelFilter)
    /\ \A i \in Handled :
           renderer.log[i].path = "levelFiltered" =>
               /\ LevelRank(LevelOfLine(i)) # -1
               /\ LevelRank(renderer.levelFilter) # -1
               /\ LevelRank(LevelOfLine(i)) < LevelRank(renderer.levelFilter)

\* C21's case: under the level filter info the record of level info was
\* rendered and the record of level DEBUG was dropped.
C21_Witness ==
    /\ renderer.levelFilter = LevelInfo
    /\ \E i \in RenderedUnderLevel : LevelOfLine(i) = LevelInfo
    /\ \E i \in Handled :
           /\ renderer.log[i].path = "levelFiltered"
           /\ LevelOfLine(i) = ToUpper(LevelDebug)

\* ------------------------------------------------------------------------
\* Specification SpecLevel: LogLevelLess on every pair out of three level
\* names, drawn from names of the rank table in both letter cases, names
\* that are not in it, and the empty name.
\* ------------------------------------------------------------------------
LevelNameInputs ==
    {LevelTrace, LevelDebug, LevelInfo, ToUpper(LevelInfo), LevelWarn, LevelWarning,
     LevelError, LevelFatal, LevelNotice, <<>>}

InitLevel ==
    /\ l = IdleLexer
    /\ collected = <<>>
    /\ p = IdleParser
    /\ ret = NotReturned
    /\ filter = IdleFilter
    /\ m = IdleMatchState
    /\ jsonCall = IdleJson
    /\ renderer = IdleRenderer
    /\ \E a \in LevelNameInputs, b \in LevelNameInputs, c \in LevelNameInputs :
           fnCall = [pc |-> "args", names |-> <<a, b, c>>,
                     less |-> [x \in 1..3 |-> [y \in 1..3 |-> FALSE]]]

\* LogLevelLess is called on every pair of the three names.
CallLogLevelLess ==
    /\ fnCall.pc = "args"
    /\ fnCall' = [fnCall EXCEPT
                     !.pc = "returned",
                     !.less = [x \in 1..3 |-> [y \in 1..3 |->
                                  LogLevelLess(fnCall.names[x], fnCall.names[y])]]]
    /\ UNCHANGED <<l, collected, p, ret, filter, m, jsonCall, renderer>>

NextLevel == CallLogLevelLess

SpecLevel == InitLevel /\ [][NextLevel]_vars

\* What LogLevelLess gave for names x and y of the three, and `x is at
\* most y`, which is that y is not less than x.
Less(x, y) == fnCall.less[x][y]
AtMost(x, y) == ~Less(y, x)
Three == 1..3

\* C22 as stated: LogLevelLess is irreflexive and asymmetric, and `at
\* most` is total and transitive over all names.
C22_TotalPreorder ==
    fnCall.pc = "returned" =>
        /\ \A x \in Three : ~Less(x, x)
        /\ \A x, y \in Three : Less(x, y) => ~Less(y, x)
        /\ \A x, y \in Three : AtMost(x, y) \/ AtMost(y, x)
        /\ \A x, y, z \in Three : AtMost(x, y) /\ AtMost(y, z) => AtMost(x, z)

\* C22: LogLevelLess is irreflexive, asymmetric and transitive; `at most`
\* is total, and is transitive through every name that has a rank.
C22_PartialOrder ==
    fnCall.pc = "returned" =>
        /\ \A x \in Three : ~Less(x, x)
        /\ \A x, y \in Three : Less(x, y) => ~Less(y, x)
        /\ \A x, y, z \in Three : Less(x, y) /\ Less(y, z) => Less(x, z)
        /\ \A x, y \in Three : AtMost(x, y) \/ AtMost(y, x)
        /\ \A x, y, z \in Three :
               AtMost(x, y) /\ AtMost(y, z) /\ LevelRank(fnCall.names[y]) # -1
                   => AtMost(x, z)

\* C22's case: debug, INFO and error, each less than the next, and debug
\* less than error.
C22_Witness ==
    /\ fnCall.pc = "returned"
    /\ fnCall.names = <<LevelDebug, ToUpper(LevelInfo), LevelError>>
    /\ Less(1, 2) /\ Less(2, 3) /\ Less(1, 3)
    /\ AtMost(1, 2) /\ AtMost(2, 3) /\ AtMost(1, 3)

\* The call was NewFilter on a range query whose term is `*`.
RangeWildcardInput == p.kql \in RangeKqls /\ Last(p.kql) = "*"

\* C23: NewFilter on a range query whose term holds an unescaped `*`
\* returns no Filter and the error `cannot have a wildcard in range query
\* token`.
C23_NoWildcardInRangeTerm ==
    ret.returned /\ RangeWildcardInput =>
        /\ ret.f = "nil"
        /\ ret.err.msg = "cannot have a wildcard in range query token"

\* The text of the value group of field f with the terms ts joined by w.
GroupKql(f, ts, w) == f \o <<":", "(">> \o JoinWord(ts, w) \o <<")">>

HasStarTerm(ts) == \E i \in 1..Len(ts) : ts[i] = TermStar

TermsOf(ts) == [i \in 1..Len(ts) |-> TermOf(ts[i])]

\* NewFilter has returned and Match has not been called yet.
JustReturned == ret.returned /\ m.calls = 0

\* NewFilter has just returned on the value group of f, ts and w.
ReturnedOnGroup(f, ts, w) == JustReturned /\ p.kql = GroupKql(f, ts, w)

GroupWords == {WordAnd, WordOr}

\* C24 as stated: a value group with a term that is exactly `*` compiles
\* to a TermsQuery or MatchAllTermsQuery with that term in its list.
C24_StarInGroupIsTerm ==
    \A f \in QueryFields, ts \in QueryTermLists, w \in GroupWords :
        ReturnedOnGroup(f, ts, w) /\ HasStarTerm(ts) =>
            /\ Len(p.filter.steps) = 1
            /\ p.filter.steps[1].op \in {"rpnTermsQuery", "rpnMatchAllTermsQuery"}
            /\ p.filter.steps[1].terms = TermsOf(ts)

\* C24: a value group with a term that is exactly `*` compiles to the
\* ExistsQuery on its field; a group without one compiles to a TermsQuery
\* or MatchAllTermsQuery on its terms.
C24_StarInGroupIsExists ==
    \A f \in QueryFields, ts \in QueryTermLists, w \in GroupWords :
        ReturnedOnGroup(f, ts, w) =>
            IF HasStarTerm(ts)
            THEN p.filter.steps = <<rpnExistsQuery(f)>>
            ELSE /\ Len(p.filter.steps) = 1
                 /\ p.filter.steps[1].op \in {"rpnTermsQuery", "rpnMatchAllTermsQuery"}
                 /\ p.filter.steps[1].field = f
                 /\ p.filter.steps[1].terms = TermsOf(ts)

\* C24's case: `a:(x and *)` compiled to the ExistsQuery on a.
C24_Witness ==
    /\ ReturnedOnGroup(<<"a">>, <<TermX, TermStar>>, WordAnd)
    /\ ret.f = "filter"
    /\ p.filter.steps = <<rpnExistsQuery(<<"a">>)>>

\* ------------------------------------------------------------------------
\* Specification SpecError: NewFilter on queries in which the lexer emits an
\* Error token, the token arriving in each state of the parser.
\* ------------------------------------------------------------------------
\* The text before the rune the lexer rejects, one for each place of the
\* parser: before a query, after a query, after a field name, after a range
\* operator, after the colon, and inside a parenthesized value group.
BeforeQueryTexts ==
    {<<>>, <<"n", "o", "t", " ">>, <<"a", ":", "x", " ", "o", "r", " ">>}
AfterQueryTexts == {<<"a", ":", "x", " ">>, <<"a", " ", ">", " ", "x", " ">>}
AfterFieldTexts == {<<"a", " ">>, <<"a">>}
AfterRangeOpTexts == {<<"a", " ", ">", " ">>, <<"a", "<", "=">>}
AfterColonTexts == {<<"a", ":">>, <<"a", ":", " ">>}
InGroupTexts ==
    {<<"a", ":", "(">>, <<"a", ":", "(", "x", " ">>,
     <<"a", ":", "(", "x", " ", "o", "r", " ">>}

ErrorPlaces ==
    BeforeQueryTexts \cup AfterQueryTexts \cup AfterFieldTexts
    \cup AfterRangeOpTexts \cup AfterColonTexts \cup InGroupTexts

\* The runes at which lexInsideKQL calls errorf.
RejectedRunes == {"{", "\"", Nul}

ErrorKqls == {t \o <<r, "x">> : t \in ErrorPlaces, r \in RejectedRunes}

InitError ==
    /\ l = IdleLexer
    /\ collected = <<>>
    /\ \E kql \in ErrorKqls : p = newParser(kql, "nil")
    /\ ret = NotReturned
    /\ filter = IdleFilter
    /\ m = IdleMatchState
    /\ jsonCall = IdleJson
    /\ renderer = IdleRenderer
    /\ fnCall = IdleCall

NextError ==
    \/ LexerRun
    \/ ParseBeforeQuery
    \/ ParseRangeQuery
    \/ ParseTermsQuery
    \/ ParseAfterQuery
    \/ ParseErrorTok
    \/ NewFilterReturn

SpecError == InitError /\ [][NextError]_vars

\* The Error token the parser has received from the lexer.
ErrorTok ==
    p.received[CHOOSE i \in DOMAIN p.received : p.received[i].typ = "tokTypeError"]

\* The returned error is the message of the token and nothing else.
CarriesTokMessage == ret.err.msg = "%s" /\ ret.err.args = ErrorTok.val

ErrorTokAt(texts) ==
    /\ ret.returned /\ ReceivedError
    /\ \E t \in texts, r \in RejectedRunes : p.kql = t \o <<r, "x">>

\* C25: whenever the lexer emits an Error token, NewFilter returns no Filter
\* and an error that carries the message of that token, in whichever state
\* the parser received it.
C25_ErrorTokMessage ==
    (ret.returned /\ ReceivedError) =>
        ret.f = "nil" /\ CarriesTokMessage

\* The same where parseErrorTok handles the token: before a query, after a
\* query, after a field name and after a range operator; after the colon and
\* inside a value group compilation fails with a message of parseTermsQuery.
C25_ErrorTokMessageOutsideTerms ==
    /\ (ret.returned /\ ReceivedError) => ret.f = "nil"
    /\ ErrorTokAt(BeforeQueryTexts \cup AfterQueryTexts \cup AfterFieldTexts
                  \cup AfterRangeOpTexts) => CarriesTokMessage
    /\ ErrorTokAt(AfterColonTexts \cup InGroupTexts) => ~CarriesTokMessage

C25_Witness ==
    /\ ErrorTokAt(AfterRangeOpTexts)
    /\ ret.f = "nil" /\ CarriesTokMessage
    /\ ErrorTok.val = <<"do not support KQL nest field queries: %q">>

\* The words of a query: its text split at the spaces.
RECURSIVE SplitSpace(_, _)
SplitSpace(s, word) ==
    IF s = <<>> THEN (IF word = <<>> THEN <<>> ELSE <<word>>)
    ELSE IF Head(s) = " "
    THEN (IF word = <<>> THEN <<>> ELSE <<word>>) \o SplitSpace(Tail(s), <<>>)
    ELSE SplitSpace(Tail(s), Append(word, Head(s)))

WordsOf(kql) == SplitSpace(kql, <<>>)

\* A boolean operator immediately followed by end of input or by `)`.
DanglingOperator(words) ==
    \E i \in DOMAIN words :
        /\ words[i] \in {WordAnd, WordOr, WordNot}
        /\ i = Len(words) \/ words[i + 1] = <<")">>

\* The depth of the bool stack after the steps, or -1 when an operator step
\* finds fewer operands on it than it pops.
RECURSIVE StackDepth(_, _)
StackDepth(steps, depth) ==
    IF steps = <<>> THEN depth
    ELSE IF Head(steps).op = "rpnNot"
    THEN (IF depth < 1 THEN -1 ELSE StackDepth(Tail(steps), depth))
    ELSE IF Head(steps).op \in {"rpnAnd", "rpnOr"}
    THEN (IF depth < 2 THEN -1 ELSE StackDepth(Tail(steps), depth - 1))
    ELSE StackDepth(Tail(steps), depth + 1)

OperandsPresent(steps) == StackDepth(steps, 0) # -1

DanglingOperatorFails ==
    (ret.returned /\ DanglingOperator(WordsOf(p.kql))) =>
        ret.f = "nil" /\ ret.err # NoErr

\* C26: a query in which `and`, `or` or `not` is immediately followed by end
\* of input or by `)` fails with an error, and no returned Filter holds an
\* operator step that lacks an operand.
C26_NoDanglingOperator ==
    /\ DanglingOperatorFails
    /\ (JustReturned /\ ret.f = "filter") => OperandsPresent(p.filter.steps)

\* The first half alone: the dangling operator is always an error.
C26_DanglingOperatorFails == DanglingOperatorFails

\* A returned Filter with an operator step that lacks its operand has two
\* `not` in a row in its query.
C26_OperandsUnlessNotNot ==
    (JustReturned /\ ret.f = "filter" /\ ~OperandsPresent(p.filter.steps)) =>
        \E i \in 1..(Len(WordsOf(p.kql)) - 1) :
            WordsOf(p.kql)[i] = WordNot /\ WordsOf(p.kql)[i + 1] = WordNot

C26_Witness ==
    /\ ret.returned /\ ret.f = "nil"
    /\ p.kql = QueryA \o <<" ">> \o WordAnd
    /\ ret.err.msg = "incomplete boolean operator"

\* ------------------------------------------------------------------------
\* Specification SpecGroup: NewFilter on one parenthesized value group
\* `a:(t1 op t2 ... tn)`, each operator being `and` or `or`.
\* ------------------------------------------------------------------------
MaxGroupTerms == 3

GroupTerms == {TermX, TermTrue, TermStar}

\* The terms ts joined by the operators ops, one between two terms.
RECURSIVE JoinOps(_, _)
JoinOps(ts, ops) ==
    IF Len(ts) = 1 THEN ts[1]
    ELSE ts[1] \o <<" ">> \o ops[1] \o <<" ">> \o JoinOps(Tail(ts), Tail(ops))

GroupField == <<"a">>

MixedGroupKqls ==
    {GroupField \o <<":", "(">> \o JoinOps(ts, ops) \o <<")">> :
         <<ts, ops>> \in
             {c \in (SeqsUpTo(GroupTerms, MaxGroupTerms) \ {<<>>})
                       \X SeqsUpTo(GroupWords, MaxGroupTerms - 1) :
                  Len(c[2]) = Len(c[1]) - 1}}

InitGroup ==
    /\ l = IdleLexer
    /\ collected = <<>>
    /\ \E kql \in MixedGroupKqls : p = newParser(kql, "nil")
    /\ ret = NotReturned
    /\ filter = IdleFilter
    /\ m = IdleMatchState
    /\ jsonCall = IdleJson
    /\ renderer = IdleRenderer
    /\ fnCall = IdleCall

NextGroup ==
    \/ LexerRun
    \/ ParseBeforeQuery
    \/ ParseTermsQuery
    \/ ParseAfterQuery
    \/ ParseEOFTok
    \/ NewFilterReturn

SpecGroup == InitGroup /\ [][NextGroup]_vars

\* The words between the parentheses of the group: terms at the odd places,
\* operators at the even ones.
GroupInner == WordsOf(SubSeq(p.kql, Len(GroupField) + 3, Len(p.kql) - 1))

GroupTermsAt == [i \in 1..((Len(GroupInner) + 1) \div 2) |-> GroupInner[2 * i - 1]]

GroupOpsAt == [i \in 1..(Len(GroupInner) \div 2) |-> GroupInner[2 * i]]

\* A later operator differs from the first.
MixedOps(ops) == \E i \in 2..Len(ops) : ops[i] # ops[1]

CannotMix ==
    /\ ret.f = "nil"
    /\ ret.err.msg = "cannot mix 'and' and 'or' in parenthesized value group"

\* The step of a group of one kind: MatchAllTermsQuery when joined by `and`,
\* TermsQuery when joined by `or` or of a single term.
GroupStepOfKind(ts, ops) ==
    IF ops # <<>> /\ ops[1] = WordAnd
    THEN rpnMatchAllTermsQuery(GroupField, TermsOf(ts))
    ELSE rpnTermsQuery(GroupField, TermsOf(ts))

\* C27 as stated: a later operator of the other kind is the cannot-mix
\* error; otherwise the group compiles to MatchAllTermsQuery when joined by
\* `and` and to TermsQuery when joined by `or` or of a single term, with the
\* terms in source order.
C27_GroupOfOneKind ==
    JustReturned =>
        IF MixedOps(GroupOpsAt) THEN CannotMix
        ELSE /\ ret.f = "filter"
             /\ p.filter.steps = <<GroupStepOfKind(GroupTermsAt, GroupOpsAt)>>

\* C27 for the groups in which no term is exactly `*`.
C27_GroupOfOneKindNoStar ==
    JustReturned =>
        IF MixedOps(GroupOpsAt) THEN CannotMix
        ELSE /\ ret.f = "filter"
             /\ ~HasStarTerm(GroupTermsAt) =>
                    p.filter.steps = <<GroupStepOfKind(GroupTermsAt, GroupOpsAt)>>

\* C27's cases: `a:(x and true or x)` fails, `a:(x and true and x)` is a
\* MatchAllTermsQuery of three terms in source order.
C27_Witness ==
    /\ JustReturned /\ ret.f = "filter"
    /\ p.kql = GroupField \o <<":", "(">>
                   \o JoinOps(<<TermX, TermTrue, TermX>>, <<WordAnd, WordAnd>>) \o <<")">>
    /\ p.filter.steps =
           <<rpnMatchAllTermsQuery(GroupField, TermsOf(<<TermX, TermTrue, TermX>>))>>

C27_WitnessMixed ==
    /\ JustReturned /\ CannotMix
    /\ GroupOpsAt = <<WordAnd, WordOr>>

\* ------------------------------------------------------------------------
\* Specification SpecTerm: one call of newTerm on an unquoted literal, then
\* one call of MatchStringBytes of the term on a string.
\* ------------------------------------------------------------------------
MaxTermPieces == 3
MaxMatchLen == 2

EscapedStar == <<"\\", "*">>
EscapedAnd == <<"\\">> \o WordAnd
EscapedOr == <<"\\">> \o WordOr
EscapedNot == <<"\\">> \o WordNot
EscapedKeywords == {EscapedAnd, EscapedOr, EscapedNot}

TermPieces == {TermX, TermStar, EscapedStar, <<".">>} \cup EscapedKeywords

RECURSIVE Concat(_)
Concat(ps) == IF ps = <<>> THEN <<>> ELSE Head(ps) \o Concat(Tail(ps))

TermVals == {Concat(ps) : ps \in SeqsUpTo(TermPieces, MaxTermPieces)}

MatchAlphabet == {"x", ".", "*", "\n"}
MatchInputs == SeqsUpTo(MatchAlphabet, MaxMatchLen)

InitTerm ==
    /\ l = IdleLexer
    /\ collected = <<>>
    /\ p = IdleParser
    /\ ret = NotReturned
    /\ filter = IdleFilter
    /\ m = IdleMatchState
    /\ jsonCall = IdleJson
    /\ renderer = IdleRenderer
    /\ \E val \in TermVals : fnCall = [pc |-> "args", val |-> val]

CallNewTerm ==
    /\ fnCall.pc = "args"
    /\ fnCall' = IF newTermFatal(fnCall.val)
                 THEN [pc |-> "fatal", val |-> fnCall.val]
                 ELSE [pc |-> "term", val |-> fnCall.val, trm |-> newTerm(fnCall.val)]
    /\ UNCHANGED <<l, collected, p, ret, filter, m, jsonCall, renderer>>

CallMatchStringBytes ==
    /\ fnCall.pc = "term"
    /\ \E b \in MatchInputs :
           fnCall' = [pc |-> "matched", val |-> fnCall.val, trm |-> fnCall.trm,
                      b |-> b, res |-> MatchStringBytes(fnCall.trm, b)]
    /\ UNCHANGED <<l, collected, p, ret, filter, m, jsonCall, renderer>>

NextTerm == CallNewTerm \/ CallMatchStringBytes

SpecTerm == InitTerm /\ [][NextTerm]_vars

\* The match the claim describes, on the literal as written: `*` stands for
\* any sequence of characters, an escaped special character for itself,
\* every other character for itself, and the whole string is consumed.
RECURSIVE GlobMatch(_, _)
GlobMatch(val, b) ==
    IF val = <<>> THEN b = <<>>
    ELSE IF Head(val) = "*"
    THEN \E k \in 0..Len(b) : GlobMatch(Tail(val), SubSeq(b, k + 1, Len(b)))
    ELSE IF Head(val) = "\\" /\ Len(val) >= 2 /\ val[2] \in unquotedSpecialChars
    THEN b # <<>> /\ Head(b) = val[2] /\ GlobMatch(Tail(Tail(val)), Tail(b))
    ELSE b # <<>> /\ Head(b) = Head(val) /\ GlobMatch(Tail(val), Tail(b))

\* The match of the text of a compiled pattern, anchors removed: `\c` is the
\* character c, `.*` any sequence without a newline, `.` one character that
\* is no newline.
RECURSIVE PatternMatch(_, _)
PatternMatch(pat, b) ==
    IF pat = <<>> THEN b = <<>>
    ELSE IF Head(pat) = "\\"
    THEN /\ Len(pat) >= 2 /\ b # <<>> /\ Head(b) = pat[2]
         /\ PatternMatch(Tail(Tail(pat)), Tail(b))
    ELSE IF Head(pat) = "." /\ Len(pat) >= 2 /\ pat[2] = "*"
    THEN \E k \in 0..Len(b) :
             /\ \A j \in 1..k : b[j] # "\n"
             /\ PatternMatch(Tail(Tail(pat)), SubSeq(b, k + 1, Len(b)))
    ELSE IF Head(pat) = "."
    THEN b # <<>> /\ Head(b) # "\n" /\ PatternMatch(Tail(pat), Tail(b))
    ELSE b # <<>> /\ Head(b) = Head(pat) /\ PatternMatch(Tail(pat), Tail(b))

HasNewline(b) == \E i \in DOMAIN b : b[i] = "\n"

\* The literals without an escaped keyword: those of C28.
NoEscapedKeyword(val) ==
    \A i \in DOMAIN val : val[i] = "\\" => (i < Len(val) /\ val[i + 1] = "*")

Matched == fnCall.pc = "matched" /\ NoEscapedKeyword(fnCall.val)

\* C28: a term with an unescaped `*` matches a string iff the whole string is
\* the term's literal pieces in order with each `*` standing for any sequence
\* of characters, regex metacharacters and an escaped `\*` matching only
\* themselves; a term without one matches only the string equal to its value.
C28_WildcardMatch ==
    Matched =>
        /\ fnCall.res = GlobMatch(fnCall.val, fnCall.b)
        /\ ~fnCall.trm.Wildcard => (fnCall.res = (fnCall.b = fnCall.trm.Val))

\* The same for the strings without a newline, the compiled pattern read as
\* a regular expression giving the same result.
C28_WildcardMatchNoNewline ==
    (Matched /\ ~HasNewline(fnCall.b)) =>
        /\ fnCall.res = GlobMatch(fnCall.val, fnCall.b)
        /\ ~fnCall.trm.Wildcard => (fnCall.res = (fnCall.b = fnCall.trm.Val))
        /\ fnCall.trm.Wildcard =>
               /\ Head(fnCall.trm.Val) = "^" /\ Last(fnCall.trm.Val) = "$"
               /\ fnCall.res =
                      PatternMatch(SubSeq(fnCall.trm.Val, 2, Len(fnCall.trm.Val) - 1),
                                   fnCall.b)

\* C28's cases: the anchored wildcard, the literal metacharacter, and the
\* newline the wildcard does not take.
C28_Witness ==
    /\ fnCall.pc = "matched" /\ fnCall.val = <<".", "*">>
    /\ fnCall.b = <<".", "x">> /\ fnCall.res

C28_WitnessNewline ==
    /\ fnCall.pc = "matched" /\ fnCall.val = <<"x", "*">>
    /\ fnCall.b = <<"x", "\n">> /\ ~fnCall.res

\* The literals made of `x` and escaped keywords only.
KeywordPieces == {TermX} \cup EscapedKeywords

KeywordVals == {Concat(ps) : ps \in SeqsUpTo(KeywordPieces, MaxTermPieces)}

TermMade == fnCall.pc \in {"term", "matched"}

\* C29: the backslash of `\and`, `\or` or `\not` is dropped, giving the bare
\* keyword, only when the sequence is the entire token; when other characters
\* come before or after it, the backslash is kept in the term's value.
C29_KeywordEscapeWholeToken ==
    (TermMade /\ fnCall.val \in KeywordVals) =>
        fnCall.trm.Val = IF fnCall.val \in EscapedKeywords
                         THEN Tail(fnCall.val)
                         ELSE fnCall.val

\* What holds: the entire token gives the bare keyword, and `\and` or `\or`
\* followed by other characters keeps its backslash.
C29_KeywordEscapeFollowed ==
    TermMade =>
        /\ fnCall.val \in EscapedKeywords => fnCall.trm.Val = Tail(fnCall.val)
        /\ \A k \in {EscapedAnd, EscapedOr}, n \in 1..(MaxTermPieces - 1) :
               fnCall.val = k \o [i \in 1..n |-> "x"] => fnCall.trm.Val = fnCall.val

\* The backslash of an escaped keyword that ends a longer token is dropped.
C29_WitnessDropped ==
    /\ TermMade /\ fnCall.val = TermX \o EscapedOr
    /\ fnCall.trm.Val = TermX \o WordOr

\* `\not` followed by other characters: its `\n` is the newline escape.
C29_WitnessNewline ==
    /\ TermMade /\ fnCall.val = EscapedNot \o TermX
    /\ fnCall.trm.Val = <<"\n", "o", "t", "x">>

\* The index of the quote that closes the quoted span of s, looked for from
\* index i on; 0 when s ends before it, -1 when s ends right after a
\* backslash.
RECURSIVE QuoteEnd(_, _)
QuoteEnd(s, i) ==
    IF i > Len(s) THEN 0
    ELSE IF s[i] = "\\" THEN (IF i + 1 > Len(s) THEN -1 ELSE QuoteEnd(s, i + 2))
    ELSE IF s[i] = "\"" THEN i
    ELSE QuoteEnd(s, i + 1)

\* collectTokens is done on an input that starts with a double quote.
CollectedQuoted == CollectDone /\ l.input # <<>> /\ Head(l.input) = "\""

\* C30: a double-quoted span is lexed as one QuotedLiteral token whose value
\* is the span with both quotes, an escaped quote not ending it and spaces
\* and special characters inside being part of it; input that ends before
\* the closing quote gives the Error `unterminated quoted literal`, or
\* `unterminated character escape` when it ends right after a backslash.
C30_QuotedLiteral ==
    CollectedQuoted =>
        /\ QuoteEnd(l.input, 2) > 0 =>
               /\ collected[1].typ = "tokTypeQuotedLiteral"
               /\ collected[1].val = SubSeq(l.input, 1, QuoteEnd(l.input, 2))
        /\ QuoteEnd(l.input, 2) = 0 =>
               /\ collected[1].typ = "tokTypeError"
               /\ collected[1].val = <<"unterminated quoted literal">>
        /\ QuoteEnd(l.input, 2) = -1 =>
               /\ collected[1].typ = "tokTypeError"
               /\ collected[1].val = <<"unterminated character escape">>

\* What lexInsideKQL does at a double quote: the Error token of the quoted
\* literals it does not support, and nothing after it.
C30_QuoteIsError ==
    CollectedQuoted =>
        collected = <<Token("tokTypeError", 0, <<"do not yet support quoted literals">>)>>

C30_WitnessClosed ==
    /\ CollectedQuoted /\ l.input = <<"\"", "a", " ", "\"">>
    /\ collected[1].typ = "tokTypeError"

\* ------------------------------------------------------------------------
\* Specification SpecContext: NewFilter on short queries, most of which fail
\* in the lexer or in the parser, some holding a percent sign.
\* ------------------------------------------------------------------------
MaxContextLen == 4

ContextAlphabet == {"a", ":", "%", " ", "(", "{"}

ContextKqls == SeqsUpTo(ContextAlphabet, MaxContextLen)

InitContext ==
    /\ l = IdleLexer
    /\ collected = <<>>
    /\ \E kql \in ContextKqls : p = newParser(kql, "nil")
    /\ ret = NotReturned
    /\ filter = IdleFilter
    /\ m = IdleMatchState
    /\ jsonCall = IdleJson
    /\ renderer = IdleRenderer
    /\ fnCall = IdleCall

NextContext ==
    \/ LexerRun
    \/ ParseBeforeQuery
    \/ ParseTermsQuery
    \/ ParseAfterQuery
    \/ ParseEOFTok
    \/ ParseErrorTok
    \/ NewFilterReturn

SpecContext == InitContext /\ [][NextContext]_vars

ReturnedError == ret.returned /\ ret.err # NoErr

\* The error ends with the KQL on one line and, on the next, the caret after
\* as many filler characters as the offset of the token the error is about,
\* which is the last token the parser took from the lexer.
EndsWithContext ==
    /\ ret.err.ctx = errorContext(p.kql, ret.err.pos)
    /\ p.received # <<>>
    /\ ret.err.pos = Last(p.received).pos
    /\ ret.err.pos <= Len(p.kql)

HasPercent(kql) == \E i \in DOMAIN kql : kql[i] = "%"

\* C31: every compile error, of the parser or of the lexer, ends with the
\* full KQL on one line followed by a line whose caret stands under the
\* offset of the offending token.
C31_ErrorContext == ReturnedError => EndsWithContext

\* The same for the queries without a percent sign.
C31_ErrorContextNoPercent ==
    (ReturnedError /\ ~HasPercent(p.kql)) => EndsWithContext

\* The context of a query with a percent sign is not the query: the percent
\* sign is read as a verb without operand.
C31_WitnessPercent ==
    /\ ReturnedError /\ p.kql = <<"a", ":", "%", "(">>
    /\ ret.err.msg = "expect 'and', 'or', or ')'; got %s"
    /\ ret.err.ctx # errorContext(p.kql, ret.err.pos)

C31_WitnessLexer ==
    /\ ReturnedError /\ ReceivedError /\ ~HasPercent(p.kql)
    /\ ret.err.msg = "%s" /\ ret.err.pos > 0
    /\ EndsWithContext

\* ------------------------------------------------------------------------
\* Specification SpecExec: one exec of one step on a record and a bool stack.
\* ------------------------------------------------------------------------
MaxStack == 2

ExecFields == {<<"a">>, LogLevelField}

ExecTermLists ==
    {<<>>, <<TermX>>, <<TermNull, TermOnePointZero>>, <<TermTrue>>, <<TermStar>>}

ExecQuerySteps ==
    {rpnExistsQuery(f) : f \in ExecFields}
    \cup {rpnTermsQuery(f, TermsOf(ts)) : f \in ExecFields, ts \in ExecTermLists}
    \cup {rpnMatchAllTermsQuery(f, TermsOf(ts)) : f \in ExecFields, ts \in ExecTermLists}
    \cup {rpnDefaultFieldsTermsQuery(ts) : ts \in ExecTermLists}
    \cup {rpnRangeQuery(op, f, TermOf(t), less) :
              op \in RangeOps, f \in ExecFields,
              t \in {TermX, TermOnePointZero, LevelInfo},
              less \in {"nil", "limitedLogLevelLess"}}

ExecBoolSteps == {rpnAnd, rpnOr, rpnNot}

\* Records: objects with the field of every kind or without it, and values
\* that are no object.
ExecRecs == QueryRecs \cup {JNull, JNum(1, 0), JStr(TermX), JArr(<<JTrue>>)}

ExecStacks == SeqsUpTo(BOOLEAN, MaxStack)

ExecState(rec, stack) ==
    [IdleMatchState EXCEPT !.pc = "exec", !.rec = rec, !.stack = stack, !.ip = 1]

InitExec ==
    /\ l = IdleLexer
    /\ collected = <<>>
    /\ p = IdleParser
    /\ ret = NotReturned
    /\ filter = IdleFilter
    /\ m = IdleMatchState
    /\ jsonCall = IdleJson
    /\ renderer = IdleRenderer
    /\ \E step \in ExecQuerySteps \cup ExecBoolSteps, rec \in ExecRecs,
          stack \in ExecStacks :
           fnCall = [pc |-> "args", step |-> step, before |-> ExecState(rec, stack)]

ExecDone(after) ==
    fnCall' = [pc |-> "done", step |-> fnCall.step, before |-> fnCall.before,
               after |-> after]

CallExecQuery ==
    /\ fnCall.pc = "args" /\ fnCall.step \in ExecQuerySteps
    /\ ExecDone(Push(fnCall.before, execQueryStep(fnCall.step, fnCall.before.rec).push))
    /\ UNCHANGED <<l, collected, p, ret, filter, m, jsonCall, renderer>>

CallExecBoolOp ==
    /\ fnCall.pc = "args" /\ fnCall.step \in ExecBoolSteps
    /\ ExecDone(CASE fnCall.step.op = "rpnAnd" -> execAnd(fnCall.before)
                  [] fnCall.step.op = "rpnOr" -> execOr(fnCall.before)
                  [] fnCall.step.op = "rpnNot" -> execNot(fnCall.before))
    /\ UNCHANGED <<l, collected, p, ret, filter, m, jsonCall, renderer>>

NextExec == CallExecQuery \/ CallExecBoolOp

SpecExec == InitExec /\ [][NextExec]_vars

\* The calls of stack.Push along the path rpnTermsQuery.exec takes from term
\* i on: a value of a kind the switch does not list pushes nothing in the
\* loop.
RECURSIVE termsQueryPushes(_, _, _)
termsQueryPushes(terms, i, fieldVal) ==
    IF i > Len(terms) THEN <<FALSE>>
    ELSE CASE fieldVal.typ \in {"TypeObject", "TypeArray"} -> <<FALSE>>
           [] fieldVal.typ \in {"TypeNull", "TypeString", "TypeNumber", "TypeTrue",
                                "TypeFalse"}
                  /\ termMatchesVal(terms[i], fieldVal) -> <<TRUE>>
           [] OTHER -> termsQueryPushes(terms, i + 1, fieldVal)

\* The calls of stack.Push of the switch of a range query: one in each case
\* listed, none for a value of another kind.
rangeSwitchPushes(q, rec, fieldVal) ==
    IF fieldVal.typ \in {"TypeString", "TypeNumber", "TypeNull", "TypeObject",
                         "TypeArray", "TypeTrue", "TypeFalse"}
    THEN <<execQueryStep(q, rec).push>>
    ELSE <<>>

\* The calls of stack.Push of the exec of query step q on rec.
pushesOf(q, rec) ==
    IF q.op \in {"rpnExistsQuery", "rpnDefaultFieldsTermsQuery"}
    THEN <<execQueryStep(q, rec).push>>
    ELSE IF FieldVal(q, rec) = Nil THEN <<FALSE>>
    ELSE IF q.op = "rpnTermsQuery" THEN termsQueryPushes(q.terms, 1, FieldVal(q, rec))
    ELSE IF q.op = "rpnMatchAllTermsQuery"
    THEN (IF FieldVal(q, rec).typ # "TypeArray" THEN <<FALSE>>
          ELSE <<matchAllLoop(q.terms, 1, FieldVal(q, rec))>>)
    ELSE IF IsLogLevelCase(q, FieldVal(q, rec)) THEN <<execQueryStep(q, rec).push>>
    ELSE rangeSwitchPushes(q, rec, FieldVal(q, rec))

ExecCalled == fnCall.pc = "done"

StackBefore == fnCall.before.stack
StackAfter == fnCall.after.stack

\* The stack after is the stack before without its n top elements, and one
\* bool pushed.
PopsAndPushesOne(n) ==
    /\ Len(StackAfter) = Len(StackBefore) - n + 1
    /\ SubSeq(StackAfter, 1, Len(StackBefore) - n)
           = SubSeq(StackBefore, 1, Len(StackBefore) - n)
    /\ Last(StackAfter) \in BOOLEAN

\* C32: the exec of a query step, on a record of any kind and with any term
\* list, pushes exactly one bool and pops none; And and Or pop two and push
\* one, Not pops one and pushes one.
C32_StackEffect ==
    ExecCalled =>
        CASE fnCall.step \in ExecQuerySteps ->
               /\ PopsAndPushesOne(0)
               /\ pushesOf(fnCall.step, fnCall.before.rec) = <<Last(StackAfter)>>
          [] fnCall.step.op \in {"rpnAnd", "rpnOr"} ->
               Len(StackBefore) >= 2 =>
                   /\ PopsAndPushesOne(2)
                   /\ Last(StackAfter) =
                          (IF fnCall.step.op = "rpnAnd"
                           THEN StackBefore[Len(StackBefore)]
                                    /\ StackBefore[Len(StackBefore) - 1]
                           ELSE StackBefore[Len(StackBefore)]
                                    \/ StackBefore[Len(StackBefore) - 1])
          [] OTHER ->
               Len(StackBefore) >= 1 =>
                   /\ PopsAndPushesOne(1)
                   /\ Last(StackAfter) = ~Last(StackBefore)

\* C32's cases: a terms query with an empty term list on a present field,
\* and Not on a stack of two.
C32_Witness ==
    /\ ExecCalled /\ fnCall.step = rpnTermsQuery(<<"a">>, <<>>)
    /\ FieldVal(fnCall.step, fnCall.before.rec) # Nil
    /\ Len(StackBefore) = MaxStack
    /\ StackAfter = Append(StackBefore, FALSE)

C32_WitnessNot ==
    /\ ExecCalled /\ fnCall.step = rpnNot
    /\ StackBefore = <<TRUE, FALSE>> /\ StackAfter = <<TRUE, TRUE>>

\* ---------------------------------------------------------------------
\* ExtractValue against LookupValue on the same object.

ExtractReturned == jsonCall.pc = "returned" /\ jsonCall.fn = "ExtractValue"

\* C33: for every object and path, ExtractValue returns exactly the value
\* LookupValue returns on the object as it was before the call; and when
\* ExtractValue returns nil, the object is left unchanged.
C33_ExtractIsLookup ==
    ExtractReturned =>
        /\ jsonCall.val = LookupValue(jsonCall.obj, jsonCall.lookup)
        /\ jsonCall.val = Nil => jsonCall.after = jsonCall.obj

\* C33's case: the path a, b is held both nested and under the dotted key,
\* and ExtractValue gives the nested value, as LookupValue does, and
\* changes the object.
C33_Witness ==
    /\ ExtractReturned
    /\ jsonCall.lookup = <<KeyA, KeyB>>
    /\ ObjGet(jsonCall.obj, Join(<<KeyA, KeyB>>)) # Nil
    /\ ObjGet(jsonCall.obj, KeyA) # Nil
    /\ jsonCall.val # Nil
    /\ jsonCall.val = ObjGet(ObjGet(jsonCall.obj, KeyA), KeyB)
    /\ jsonCall.val # ObjGet(jsonCall.obj, Join(<<KeyA, KeyB>>))
    /\ jsonCall.after # jsonCall.obj

\* C33's other case: the first key of the path holds something that does
\* not lead to a value, ExtractValue returns nil and the object is as it
\* was.
C33_WitnessAbsent ==
    /\ ExtractReturned
    /\ Len(jsonCall.lookup) = 2
    /\ jsonCall.obj # Nil
    /\ jsonCall.obj.typ = "TypeObject"
    /\ ObjGet(jsonCall.obj, jsonCall.lookup[1]) # Nil
    /\ jsonCall.val = Nil
    /\ jsonCall.after = jsonCall.obj

\* ---------------------------------------------------------------------
\* Parentheses in the token stream of collectTokens.

RECURSIVE CountType(_, _)
CountType(toks, typ) ==
    IF toks = <<>> THEN 0
    ELSE CountType(Front(toks), typ) + (IF Last(toks).typ = typ THEN 1 ELSE 0)

Opens(k) == CountType(SubSeq(collected, 1, k), "tokTypeOpenParen")
Closes(k) == CountType(SubSeq(collected, 1, k), "tokTypeCloseParen")

IsLexError(tok, val) == tok.typ = "tokTypeError" /\ tok.val = val

\* In every prefix there is at most one CloseParen more than OpenParens,
\* and after the CloseParen too many the next token is the last one, the
\* Error for it.
CloseExcessEndsStream ==
    \A k \in 0..Len(collected) :
        /\ Closes(k) - Opens(k) <= 1
        /\ Closes(k) - Opens(k) = 1 =>
               IF collected[k].typ = "tokTypeCloseParen"
               THEN /\ CollectDone => k < Len(collected)
                    /\ k < Len(collected) =>
                           /\ k + 1 = Len(collected)
                           /\ IsLexError(collected[k + 1],
                                         <<"unmatched close parenthesis">>)
               ELSE /\ k = Len(collected)
                    /\ IsLexError(collected[k],
                                  <<"unmatched close parenthesis">>)

\* The Error at the end of input for n OpenParens left unclosed.
ReportsUnclosed(tok, n) ==
    IF n = 1 THEN IsLexError(tok, <<"unclosed open parenthesis">>)
    ELSE IsLexError(tok, <<"unclosed open parentheses (%d)">> \o FormatInt(n))

\* The Errors that end the lexer before the end of the input is judged.
OtherLexErrors ==
    {<<"unmatched close parenthesis">>,
     <<"unterminated character escape">>,
     <<"do not yet support quoted literals">>,
     <<"do not support KQL nest field queries: %q">>,
     <<"unrecognized character: %#U">>}

EndsInOtherError ==
    Last(collected).typ = "tokTypeError" /\ Last(collected).val \in OtherLexErrors

AllOpens == Opens(Len(collected))
AllCloses == Closes(Len(collected))

\* C34 as stated: in every prefix of a token stream there is at most one
\* CloseParen more than OpenParens, and then the next token is the terminal
\* Error `unmatched close parenthesis`; a stream ends in EOF only if it
\* has as many OpenParens as CloseParens, and with OpenParens left
\* unclosed it ends in the Error that reports them.
C34_ParenBalance ==
    /\ CloseExcessEndsStream
    /\ CollectDone =>
           /\ Last(collected).typ = "tokTypeEOF" => AllOpens = AllCloses
           /\ AllOpens > AllCloses =>
                  ReportsUnclosed(Last(collected), AllOpens - AllCloses)

\* C34 amended: as above, but a stream with OpenParens left unclosed ends
\* in the Error that reports them unless another Error of the lexer ended
\* it first; and a stream that no other Error ended ends in EOF when its
\* counts are equal.
C34_ParenBalanceUnlessOtherError ==
    /\ CloseExcessEndsStream
    /\ CollectDone =>
           /\ Last(collected).typ = "tokTypeEOF" => AllOpens = AllCloses
           /\ ~EndsInOtherError =>
                  IF AllOpens = AllCloses
                  THEN Last(collected).typ = "tokTypeEOF"
                  ELSE /\ AllOpens > AllCloses
                       /\ ReportsUnclosed(Last(collected), AllOpens - AllCloses)

\* C34's case: `((a)` leaves one OpenParen unclosed and `((a` two, reported
\* with the count; the witness is the second.
C34_Witness ==
    /\ CollectDone
    /\ l.input = <<"(", "(", "a">>
    /\ AllOpens = 2 /\ AllCloses = 0
    /\ Last(collected).val = <<"unclosed open parentheses (%d)", "2">>

\* C34's case of the CloseParen too many: `(a))`.
C34_WitnessUnmatched ==
    /\ CollectDone
    /\ l.input = <<"(", "a", ")", ")">>
    /\ AllCloses = AllOpens + 1
    /\ IsLexError(Last(collected), <<"unmatched close parenthesis">>)

\* The stream of `({`: an OpenParen left unclosed and the Error is the one
\* for the brace.
C34_WitnessOtherError ==
    /\ CollectDone
    /\ l.input = <<"(", "{">>
    /\ AllOpens = 1 /\ AllCloses = 0
    /\ EndsInOtherError

\* ---------------------------------------------------------------------
\* Specification SpecWord: collectTokens on inputs put together from the
\* operator words in several spellings, a backslash, a letter, a space and
\* a colon.
MaxWordPieces == 3

WordPieces ==
    {<<"o", "r">>, <<"O", "R">>, <<"a", "n", "d">>, <<"A", "n", "d">>,
     <<"n", "o", "t">>, <<"N", "O", "T">>, <<"\\">>, <<"x">>, <<" ">>, <<":">>}

WordInputs == {Concat(ps) : ps \in SeqsUpTo(WordPieces, MaxWordPieces)}

LexStartWord ==
    /\ l.pc = "idle"
    /\ \E input \in WordInputs : l' = lex(input)
    /\ UNCHANGED <<collected, p, ret, filter, m, jsonCall, renderer, fnCall>>

NextWord ==
    \/ LexStartWord
    \/ LexStateInsideKQL
    \/ LexStateUnquotedLiteralOrBoolOp
    \/ LexStateResume
    \/ CollectToken

SpecWord == InitLex /\ [][NextWord]_vars

WordTypes == {"tokTypeOr", "tokTypeAnd", "tokTypeNot", "tokTypeUnquotedLiteral"}

\* The spellings of a word in upper and lower case letters.
Spellings(word) ==
    {s \in [1..Len(word) -> {word[i] : i \in 1..Len(word)}
                             \cup {ToUpperCh(word[i]) : i \in 1..Len(word)}] :
        \A i \in 1..Len(word) : s[i] \in {word[i], ToUpperCh(word[i])}}

HasBackslash(val) == \E i \in 1..Len(val) : val[i] = "\\"

SpelledAs(val, word) == ~HasBackslash(val) /\ val \in Spellings(word)

\* The bytes of the input that the token covers.
RawBytes(tok) == SubSeq(l.input, tok.pos + 1, tok.pos + Len(tok.val))

\* C35: an unquoted literal is emitted as Or, And or Not iff it holds no
\* backslash and its bytes, lowercased, are `or`, `and` or `not`; every
\* other one is an UnquotedLiteral; and the token carries the raw bytes of
\* the input, escapes kept.
C35_OperatorWords ==
    \A i \in 1..Len(collected) :
        collected[i].typ \in WordTypes =>
            /\ collected[i].typ = "tokTypeOr" <=>
                   SpelledAs(collected[i].val, <<"o", "r">>)
            /\ collected[i].typ = "tokTypeAnd" <=>
                   SpelledAs(collected[i].val, <<"a", "n", "d">>)
            /\ collected[i].typ = "tokTypeNot" <=>
                   SpelledAs(collected[i].val, <<"n", "o", "t">>)
            /\ collected[i].val = RawBytes(collected[i])
            /\ collected[i].val # <<>>

\* C35's case: `\and` is a literal that keeps its backslash.
C35_Witness ==
    /\ CollectDone
    /\ l.input = <<"\\", "a", "n", "d">>
    /\ Len(collected) = 2
    /\ collected[1] = Token("tokTypeUnquotedLiteral", 0, <<"\\", "a", "n", "d">>)

\* C35's case of the operators in upper case: `x OR`, `NOT`.
C35_WitnessUpper ==
    /\ CollectDone
    /\ \E i \in 1..Len(collected) :
           \/ collected[i] = Token("tokTypeOr", 2, <<"O", "R">>)
           \/ collected[i] = Token("tokTypeNot", 0, <<"N", "O", "T">>)

\* C35's case of a longer word that starts with an operator: `notx`.
C35_WitnessLonger ==
    /\ CollectDone
    /\ l.input = <<"n", "o", "t", "x">>
    /\ collected[1] = Token("tokTypeUnquotedLiteral", 0, <<"n", "o", "t", "x">>)

\* ---------------------------------------------------------------------
\* The stack of staged operators while NewFilter parses.

StagedTypes == {"tokTypeAnd", "tokTypeOr", "tokTypeNot", "tokTypeOpenParen"}

\* Two staged tokens next to each other in one stretch: neither is an
\* OpenParen.
SameStretch(ops, i) ==
    /\ ops[i].typ # "tokTypeOpenParen"
    /\ ops[i + 1].typ # "tokTypeOpenParen"

\* The operators of the stretch that holds position i.
RECURSIVE StretchStart(_, _)
StretchStart(ops, i) ==
    IF i = 1 \/ ops[i - 1].typ = "tokTypeOpenParen" THEN i
    ELSE StretchStart(ops, i - 1)

CountInStretch(ops, i, typ) ==
    Cardinality({k \in StretchStart(ops, i)..i : ops[k].typ = typ})

\* C36: at every point of the parse p.stagedOps holds only And, Or, Not
\* and OpenParen tokens, and in each stretch between OpenParens the
\* precedence strictly increases from bottom to top, so that a stretch
\* holds at most one Or, one And and one Not.
C36_StagedOpsIncreasing ==
    (p.state # "idle") =>
        /\ \A i \in 1..Len(p.stagedOps) : p.stagedOps[i].typ \in StagedTypes
        /\ \A i \in 1..(Len(p.stagedOps) - 1) :
               SameStretch(p.stagedOps, i) =>
                   opPrecedenceFromTokType(p.stagedOps[i].typ)
                       < opPrecedenceFromTokType(p.stagedOps[i + 1].typ)
        /\ \A i \in 1..Len(p.stagedOps) :
               p.stagedOps[i].typ # "tokTypeOpenParen" =>
                   \A typ \in {"tokTypeAnd", "tokTypeOr", "tokTypeNot"} :
                       CountInStretch(p.stagedOps, i, typ) <= 1

\* C36's case: `a:x or a:x and not` has staged Or, And, Not, one of each
\* in rising precedence.
C36_Witness ==
    /\ Len(p.stagedOps) = 3
    /\ p.stagedOps[1].typ = "tokTypeOr"
    /\ p.stagedOps[2].typ = "tokTypeAnd"
    /\ p.stagedOps[3].typ = "tokTypeNot"

\* C36's case of two stretches: `not ( not` has staged Not, OpenParen, Not.
C36_WitnessStretches ==
    /\ Len(p.stagedOps) = 3
    /\ p.stagedOps[1].typ = "tokTypeNot"
    /\ p.stagedOps[2].typ = "tokTypeOpenParen"
    /\ p.stagedOps[3].typ = "tokTypeNot"

\* C36's case of an operator staged on one of its own precedence:
\* `not not` pops the first Not into the program and stages the second.
C36_WitnessNotNot ==
    /\ Len(p.received) = 2
    /\ p.received[1].typ = "tokTypeNot" /\ p.received[2].typ = "tokTypeNot"
    /\ Len(p.stagedOps) = 1
    /\ p.stagedOps[1] = p.received[2]
    /\ p.filter.steps = <<rpnNot>>

\* ---------------------------------------------------------------------
\* Specification SpecParen: NewFilter on queries put together from
\* parentheses, a literal, a colon and the operators `or` and `not`, so
\* that parentheses of boolean groups and of value groups mix.
MaxParenPieces == 5

ParenPieces == {<<"(">>, <<")">>, <<"a">>, <<":">>, WordOr, WordNot}

ParenKqls == {JoinSpace(ps) : ps \in SeqsUpTo(ParenPieces, MaxParenPieces)}

InitParen ==
    /\ l = IdleLexer
    /\ collected = <<>>
    /\ \E kql \in ParenKqls : p = newParser(kql, "nil")
    /\ ret = NotReturned
    /\ filter = IdleFilter
    /\ m = IdleMatchState
    /\ jsonCall = IdleJson
    /\ renderer = IdleRenderer
    /\ fnCall = IdleCall

NextParen ==
    \/ LexerRun
    \/ ParseBeforeQuery
    \/ ParseTermsQuery
    \/ ParseAfterQuery
    \/ ParseEOFTok
    \/ ParseErrorTok
    \/ NewFilterReturn

SpecParen == InitParen /\ [][NextParen]_vars

NoOpenParen(ops) == \A i \in 1..Len(ops) : ops[i].typ # "tokTypeOpenParen"

BoolOpSteps == {rpnAnd, rpnOr, rpnNot}

QueryOps ==
    {"rpnExistsQuery", "rpnTermsQuery", "rpnMatchAllTermsQuery",
     "rpnDefaultFieldsTermsQuery"} \cup RangeOps

\* The parser holds the EOF token of its lexer.
ReceivedEOF == p.received # <<>> /\ Last(p.received).typ = "tokTypeEOF"

\* C37: addBoolOp is handed And, Or and Not tokens only, so its fatal
\* branch is never taken and the program holds queries and the three
\* operators only; when the end of input is reached no OpenParen is
\* staged, and a completed program leaves nothing staged.
C37_NoOpenParenInProgram ==
    /\ p.fatal # "token is not a bool op token"
    /\ \A i \in 1..Len(p.filter.steps) :
           p.filter.steps[i] \in BoolOpSteps \/ p.filter.steps[i].op \in QueryOps
    /\ ReceivedEOF => NoOpenParen(p.stagedOps)
    /\ (ret.returned /\ ret.f = "filter") =>
           /\ p.stagedOps = <<>>
           /\ Len(filter.steps) = Len(p.filter.steps)
           /\ \A i \in 1..Len(filter.steps) :
                  filter.steps[i].op = p.filter.steps[i].op

\* C37's case: `( not a )` compiles; the OpenParen was staged under the
\* Not, the close parenthesis took both off the stack, and only the Not
\* went to the program.
C37_Witness ==
    /\ ret.returned /\ ret.f = "filter"
    /\ p.kql = JoinSpace(<<<<"(">>, WordNot, <<"a">>, <<")">>>>)
    /\ ReceivedEOF
    /\ filter.steps = <<rpnDefaultFieldsTermsQuery(<<<<"a">>>>), rpnNot>>

\* C37's case of the parentheses of a value group inside those of a
\* boolean group: `( a : ( a` ends in the lexer's Error with two OpenParens
\* received and one staged.
C37_WitnessStaged ==
    /\ p.kql = JoinSpace(<<<<"(">>, <<"a">>, <<":">>, <<"(">>, <<"a">>>>)
    /\ ReceivedError
    /\ Len(p.stagedOps) = 1
    /\ ~NoOpenParen(p.stagedOps)

\* ---------------------------------------------------------------------
\* Specification SpecEscape: NewFilter on queries put together from a
\* backslash, a letter, the word `or` and the characters that set off a
\* field, a range and a group.
MaxEscapePieces == 4

EscapePieces ==
    {<<"\\">>, <<"a">>, WordOr, <<":">>, <<">">>, <<" ">>, <<"(">>, <<")">>}

EscapeKqls == {Concat(ps) : ps \in SeqsUpTo(EscapePieces, MaxEscapePieces)}

InitEscape ==
    /\ l = IdleLexer
    /\ collected = <<>>
    /\ \E kql \in EscapeKqls : p = newParser(kql, "nil")
    /\ ret = NotReturned
    /\ filter = IdleFilter
    /\ m = IdleMatchState
    /\ jsonCall = IdleJson
    /\ renderer = IdleRenderer
    /\ fnCall = IdleCall

NextEscape ==
    \/ LexerRun
    \/ ParseBeforeQuery
    \/ ParseRangeQuery
    \/ ParseTermsQuery
    \/ ParseAfterQuery
    \/ ParseEOFTok
    \/ ParseErrorTok
    \/ NewFilterReturn

SpecEscape == InitEscape /\ [][NextEscape]_vars

\* Every backslash that starts an escape in val has a byte after it; the
\* byte it escapes, a backslash included, starts no escape of its own.
RECURSIVE EscapesComplete(_)
EscapesComplete(val) ==
    IF val = <<>> THEN TRUE
    ELSE IF Head(val) = "\\"
    THEN Len(val) >= 2 /\ EscapesComplete(Tail(Tail(val)))
    ELSE EscapesComplete(Tail(val))

\* C38: in every literal token the parser receives, each backslash that
\* starts an escape is followed by another byte; and newTerm's fatal
\* `term ends in unescaped backslash` is never reached from NewFilter.
C38_NoTrailingBackslash ==
    /\ \A i \in 1..Len(p.received) :
           p.received[i].typ = "tokTypeUnquotedLiteral" =>
               /\ EscapesComplete(p.received[i].val)
               /\ ~newTermFatal(p.received[i].val)
    /\ p.fatal # "term ends in unescaped backslash"

\* C38's case: `a:\\` compiles; the term token ends in a backslash, which
\* is the escaped one, and the term is a single backslash.
C38_Witness ==
    /\ ret.returned /\ ret.f = "filter"
    /\ p.kql = <<"a", ":", "\\", "\\">>
    /\ p.received[3] = Token("tokTypeUnquotedLiteral", 2, <<"\\", "\\">>)
    /\ filter.steps = <<rpnTermsQuery(<<"a">>, <<newTerm(<<"\\", "\\">>)>>)>>
    /\ newTerm(<<"\\", "\\">>).Val = <<"\\">>

\* C38's case of the backslash at the end of the input: `a:a\` gives no
\* literal for `a\` but the lexer's Error.
C38_WitnessUnterminated ==
    /\ ret.returned /\ ret.f = "nil"
    /\ p.kql = <<"a", ":", "a", "\\">>
    /\ Len(p.received) = 3
    /\ IsLexError(p.received[3], <<"unterminated character escape">>)

\* ---------------------------------------------------------------------
\* The look-ahead slot of the parser and the order of its tokens.

LookAheadPanics ==
    {"cannot parser.peek(), lookAheadTok is in used",
     "cannot parser.backup(), lookAheadTok is in used"}

\* What the parser holds in its look-ahead slot.
InSlot == IF p.lookAheadTok = NoTok THEN <<>> ELSE <<p.lookAheadTok>>

\* C39: peek() and backup() are called only while the look-ahead slot is
\* empty, so neither panics; and the tokens that next() has delivered,
\* followed by the one in the slot, are the tokens the lexer has sent, in
\* their order: none is lost, none is delivered twice.
C39_LookAheadInOrder ==
    (p.state # "idle") =>
        /\ p.fatal \notin LookAheadPanics
        /\ p.consumed \o InSlot = p.received

\* C39's case: `a a` compiles; parseBeforeQuery has peeked the second
\* literal, its loop has taken it from the slot, then EOF from the lexer,
\* and backed EOF up; parseAfterQuery has taken EOF and backed it up for
\* parseEOFTok; all three tokens were delivered once.
C39_Witness ==
    /\ ret.returned /\ ret.f = "filter"
    /\ p.kql = <<"a", " ", "a">>
    /\ Len(p.received) = 3
    /\ p.consumed = p.received
    /\ p.lookAheadTok = NoTok
    /\ filter.steps = <<rpnDefaultFieldsTermsQuery(<<<<"a">>, <<"a">>>>)>>

\* C39's case of a token waiting in the slot: after `a>` parseBeforeQuery
\* has peeked the operator, which parseRangeQuery is to consume.
C39_WitnessSlot ==
    /\ p.state = "parseRangeQuery"
    /\ Len(p.received) = 2
    /\ p.lookAheadTok = p.received[2]
    /\ p.consumed = <<p.received[1]>>

\* ---------------------------------------------------------------------
\* The terminal token of the lexer and the closed channel.

\* C40: the parser requests no token from its lexer after the terminal
\* one, EOF or Error: a terminal token is the last it has received; and it
\* never receives the zero token of the closed channel.
C40_NothingAfterTerminal ==
    /\ \A i \in 1..(Len(p.received) - 1) :
           p.received[i].typ \notin TerminalTypes
    /\ \A i \in 1..Len(p.received) : p.received[i] # ZeroTok

\* C40's case: for `a:\` the lexer sends Error and closes its channel;
\* parseTermsQuery reports the Error token it took and the parser is
\* done, with the Error the last token received.
C40_Witness ==
    /\ ret.returned /\ ret.f = "nil"
    /\ p.kql = <<"a", ":", "\\">>
    /\ p.lex.closed
    /\ Len(p.received) = 3
    /\ IsLexError(Last(p.received), <<"unterminated character escape">>)

\* C40's case of EOF peeked by the term loop and taken from the slot by
\* parseAfterQuery and parseEOFTok: `a:a`.
C40_WitnessEOF ==
    /\ ret.returned /\ ret.f = "filter"
    /\ p.kql = <<"a", ":", "a">>
    /\ p.lex.closed
    /\ Len(p.received) = 4
    /\ Last(p.received).typ = "tokTypeEOF"

====
